---- MODULE Spec2Model ----
(***************************************************************************)
(* The quote service: AdvancedQuoteServiceImpl over the in-memory          *)
(* InMemoryQuoteRepository, with the REST like route in front of it.       *)
(*                                                                         *)
(* Strings whose characters the code inspects (content, author, tags,      *)
(* search queries) are sequences of one-character strings; identifiers     *)
(* (quote ids, user ids, collection ids, event types, error messages) are  *)
(* only ever compared for equality and stay TLA+ strings.                  *)
(* An optional value (T | null | undefined) is the empty sequence or the   *)
(* one-element sequence <<v>>.                                             *)
(* Every handler runs to completion in one step.                           *)
(***************************************************************************)
EXTENDS Integers, Sequences, FiniteSets, TLC

VARIABLES
    quotes,          \* InMemoryQuoteRepository.quotes: Map<id, Quote>, in insertion order
    likes,           \* InMemoryQuoteRepository.likes: Map<quoteId, QuoteLike[]>
    activityLog,     \* AdvancedQuoteServiceImpl.activityLog
    userPreferences, \* AdvancedQuoteServiceImpl.userPreferences
    collections,     \* AdvancedQuoteServiceImpl.collections, in insertion order
    pubsub,          \* whether the optional constructor argument pubsub was given
    now,             \* Date.now(), in hours
    ret,             \* the last call: its name, arguments, thrown error and result
    requests         \* the calls that run concurrently: each one's position and locals

vars == <<quotes, likes, activityLog, userPreferences, collections, pubsub, now, ret,
         requests>>

----------------------------------------------------------------------------
(* Bounds of the model *)

MaxLog == 2
MaxTime == 1
MaxLimit == 3
MaxIds == 3
MaxLikes == 11
MaxClock == 36

----------------------------------------------------------------------------
(* DOMAIN_CONSTANTS *)

QUOTE_NOT_FOUND == "Quote not found"
COLLECTION_NOT_FOUND == "Collection not found"
EXTERNAL_API_FAILED == "Failed to fetch quote from external service and no local quotes available"
QUOTE_COMPARISON_MIN == "At least 2 valid quotes required for comparison"

NEW_QUOTE_ADDED == "NEW_QUOTE_ADDED"
QUOTE_LIKED == "QUOTE_LIKED"
QUOTE_UNLIKED == "QUOTE_UNLIKED"

POPULARITY_DIVISOR == 10
TRENDING_DIVISOR == 5
AUTHOR_MATCH_WEIGHT == 3
TAG_SIMILARITY_WEIGHT == 2
WORD_SIMILARITY_WEIGHT == 5
MIN_WORD_LENGTH == 2
TOP_QUOTES == 5
TRENDING_WINDOW == 24
CONTENT_SIMILARITY_WEIGHT == 6
PREFERENCE_AUTHOR_WEIGHT == 3
PREFERENCE_TAG_WEIGHT == 2
TRENDING_SCORE == 8
TRENDING_CONFIDENCE == 9

----------------------------------------------------------------------------
(* Values *)

NoError == ""
\* An absent userId (undefined); like the empty string it is falsy.
Undefined == "undefined"
Users == {"u1", "u2"}
OptUsers == Users \cup {Undefined}

Min(a, b) == IF a <= b THEN a ELSE b
Max(a, b) == IF a >= b THEN a ELSE b

\* Array.prototype.slice(0, n) for n >= 0
Slice(s, n) == SubSeq(s, 1, Min(n, Len(s)))

RECURSIVE Filter(_, _)
\* Array.prototype.filter, for a predicate given as the set of elements it keeps
Filter(s, keep) ==
    IF s = <<>> THEN <<>>
    ELSE IF Head(s) \in keep THEN <<Head(s)>> \o Filter(Tail(s), keep)
         ELSE Filter(Tail(s), keep)

----------------------------------------------------------------------------
(* Text *)

UpperAlpha == <<"A","B","C","D","E","F","G","H","I","J","K","L","M",
                "N","O","P","Q","R","S","T","U","V","W","X","Y","Z">>
LowerAlpha == <<"a","b","c","d","e","f","g","h","i","j","k","l","m",
                "n","o","p","q","r","s","t","u","v","w","x","y","z">>
Digits == {"0","1","2","3","4","5","6","7","8","9"}
Range(s) == {s[i] : i \in DOMAIN s}

toLowerCaseChar(c) ==
    IF c \in Range(UpperAlpha)
    THEN LowerAlpha[CHOOSE i \in DOMAIN UpperAlpha : UpperAlpha[i] = c]
    ELSE c

\* String.prototype.toLowerCase
toLowerCase(s) == [i \in DOMAIN s |-> toLowerCaseChar(s[i])]

\* \s of a regular expression
isSpace(c) == c \in {" ", "\t", "\n"}
\* \w of a regular expression
isWord(c) == c \in Range(UpperAlpha) \cup Range(LowerAlpha) \cup Digits \cup {"_"}

\* String.prototype.trim
trim(s) ==
    IF \A i \in DOMAIN s : isSpace(s[i]) THEN <<>>
    ELSE LET first == CHOOSE i \in DOMAIN s :
                         ~isSpace(s[i]) /\ \A j \in 1..(i - 1) : isSpace(s[j])
             last == CHOOSE i \in DOMAIN s :
                         ~isSpace(s[i]) /\ \A j \in (i + 1)..Len(s) : isSpace(s[j])
         IN SubSeq(s, first, last)

\* String.prototype.includes
includes(s, t) ==
    \E i \in 0..(Len(s) - Len(t)) : SubSeq(s, i + 1, i + Len(t)) = t

\* text.replace(WORD_REGEX, ' ') with WORD_REGEX = /[^\w\s]/g
replaceNonWord(s) ==
    [i \in DOMAIN s |-> IF isWord(s[i]) \/ isSpace(s[i]) THEN s[i] ELSE " "]

RECURSIVE splitWhitespace(_)
\* text.split(WHITESPACE_REGEX) with WHITESPACE_REGEX = /\s+/
splitWhitespace(s) ==
    IF \A i \in DOMAIN s : ~isSpace(s[i]) THEN <<s>>
    ELSE LET i == CHOOSE k \in DOMAIN s :
                      isSpace(s[k]) /\ \A j \in 1..(k - 1) : ~isSpace(s[j])
             j == CHOOSE k \in i..Len(s) :
                      /\ \A m \in i..k : isSpace(s[m])
                      /\ (k = Len(s) \/ ~isSpace(s[k + 1]))
         IN <<SubSeq(s, 1, i - 1)>> \o splitWhitespace(SubSeq(s, j + 1, Len(s)))

RECURSIVE FilterLonger(_, _)
FilterLonger(ws, n) ==
    IF ws = <<>> THEN <<>>
    ELSE IF Len(Head(ws)) > n THEN <<Head(ws)>> \o FilterLonger(Tail(ws), n)
         ELSE FilterLonger(Tail(ws), n)

extractWords(text) ==
    FilterLonger(splitWhitespace(replaceNonWord(toLowerCase(text))), MIN_WORD_LENGTH)

----------------------------------------------------------------------------
(* The quotes the external services and the seeding can supply.  length 0 *)
(* stands for an absent length.                                            *)

Q1 == [id |-> "1",
       content |-> <<"L","o","v","e"," ","l","i","f","e">>,
       author |-> <<"A","n","n">>,
       tags |-> << <<"L","i","f","e">> >>,
       length |-> 9]
Q2 == [id |-> "2",
       content |-> <<"L","i","f","e",","," ","l","o","v","e","!">>,
       author |-> <<"a","n","n">>,
       tags |-> << <<"l","i","f","e">>, <<"j","o","y">> >>,
       length |-> 11]
Q3 == [id |-> "3",
       content |-> <<"B","e"," ","a"," ","j","o","y">>,
       author |-> <<"B","o","b">>,
       tags |-> <<>>,
       length |-> 0]
\* another quote under the id of Q1
Q1b == [id |-> "1",
        content |-> <<"N","e","w"," ","j","o","y">>,
        author |-> <<"B","o","b">>,
        tags |-> <<>>,
        length |-> 7]

\* further quotes, for a store that holds more than TOP_QUOTES quotes
Q4 == [id |-> "4", content |-> <<"a">>, author |-> <<"A","n","n">>, tags |-> <<>>, length |-> 1]
Q5 == [id |-> "5", content |-> <<"b">>, author |-> <<"B","o","b">>, tags |-> <<>>, length |-> 1]
Q6 == [id |-> "6", content |-> <<"c">>, author |-> <<"B","o","b">>, tags |-> <<>>, length |-> 1]
MoreQuoteIds == {"4", "5", "6"}

Catalogue == {Q1, Q2, Q3, Q1b, Q4, Q5, Q6}
QuoteIds == {"1", "2", "3"}

----------------------------------------------------------------------------
(* InMemoryQuoteRepository *)

\* a key the Map does not hold reads as [] everywhere (likes.get(id) || []), so
\* likes is a function on every quote id and a missing key is the empty sequence
repoGetQuoteById(id) ==
    IF \E i \in DOMAIN quotes : quotes[i].id = id
    THEN <<quotes[CHOOSE i \in DOMAIN quotes : quotes[i].id = id]>>
    ELSE <<>>

getAllQuotes == quotes

\* Map.set: a held key keeps its place, a new key goes last
saveQuote(qs, quote) ==
    IF \E i \in DOMAIN qs : qs[i].id = quote.id
    THEN [qs EXCEPT ![CHOOSE i \in DOMAIN qs : qs[i].id = quote.id] = quote]
    ELSE Append(qs, quote)

getLikesByQuoteId(lk, quoteId) == lk[quoteId]

getUserLikeForQuote(lk, quoteId, userId) ==
    LET quoteLikes == lk[quoteId]
        hits == {i \in DOMAIN quoteLikes : quoteLikes[i].userId = userId}
    IN IF hits = {} THEN <<>>
       ELSE <<quoteLikes[CHOOSE i \in hits : \A j \in hits : i <= j]>>

addLike_noIndexCheck(lk, like) ==
    [lk EXCEPT ![like.quoteId] = Append(@, like)]

addLike(lk, like) ==
    LET quoteLikes == lk[like.quoteId] IN
    IF \A i \in DOMAIN quoteLikes : quoteLikes[i].userId # like.userId
    THEN [lk EXCEPT ![like.quoteId] = Append(quoteLikes, like)]
    ELSE lk

removeLike(lk, quoteId, userId) ==
    [lk EXCEPT ![quoteId] =
        Filter(@, {l \in Range(@) : l.userId # userId})]

----------------------------------------------------------------------------
(* AdvancedQuoteServiceImpl: helpers *)

\* data.quoteId || '' ; the details string is written and never read
publishActivity(log, type, quoteId, userId) ==
    IF pubsub
    THEN Append(log, [type |-> type,
                      quoteId |-> IF quoteId = Undefined THEN "" ELSE quoteId,
                      userId |-> userId,
                      timestamp |-> now])
    ELSE log

calculatePopularityScore_unbounded(n) == n

\* in units of 1 / POPULARITY_DIVISOR
calculatePopularityScore(n) == Min(n, POPULARITY_DIVISOR)

\* a quote's trending score when likes that were taken back are not counted
calculateTrendingScore_lessUnlikes(log, quoteId) ==
    LET recent(type) == Cardinality({i \in DOMAIN log :
            /\ log[i].type = type
            /\ log[i].quoteId = quoteId
            /\ log[i].timestamp > now - TRENDING_WINDOW})
    IN Min(Max(recent(QUOTE_LIKED) - recent(QUOTE_UNLIKED), 0), TRENDING_DIVISOR)

\* in units of 1 / TRENDING_DIVISOR
calculateTrendingScore(log, quoteId) ==
    LET recentLikes == Cardinality({i \in DOMAIN log :
            /\ log[i].type = QUOTE_LIKED
            /\ log[i].quoteId = quoteId
            /\ log[i].timestamp > now - TRENDING_WINDOW})
    IN Min(recentLikes, TRENDING_DIVISOR)

enrichQuoteWithStats_ignoreUser(lk, log, quote, userId) ==
    LET ls == getLikesByQuoteId(lk, quote.id) IN
    [id |-> quote.id, content |-> quote.content, author |-> quote.author,
     tags |-> quote.tags, length |-> quote.length,
     likes |-> Len(ls),
     likedByCurrentUser |-> (userId # Undefined /\ Len(ls) > 0),
     popularityScore |-> calculatePopularityScore(Len(ls)),
     trendingScore |-> calculateTrendingScore(log, quote.id)]

enrichQuoteWithStats(lk, log, quote, userId) ==
    LET ls == getLikesByQuoteId(lk, quote.id)
        likedByCurrentUser ==
            IF userId # Undefined
            THEN getUserLikeForQuote(lk, quote.id, userId) # <<>>
            ELSE FALSE
    IN [id |-> quote.id, content |-> quote.content, author |-> quote.author,
        tags |-> quote.tags, length |-> quote.length,
        likes |-> Len(ls),
        likedByCurrentUser |-> likedByCurrentUser,
        popularityScore |-> calculatePopularityScore(Len(ls)),
        trendingScore |-> calculateTrendingScore(log, quote.id)]

\* the quote fields of an enriched quote
QuoteOf(e) == [id |-> e.id, content |-> e.content, author |-> e.author,
               tags |-> e.tags, length |-> e.length]

----------------------------------------------------------------------------
(* AdvancedQuoteServiceImpl: getQuoteById, likeQuote, unlikeQuote.         *)
(* Each operator gives the outcome of the call in the current state: the   *)
(* error thrown (NoError for none), the value returned and the state left. *)

getQuoteById(id, userId) ==
    LET quote == repoGetQuoteById(id) IN
    IF quote = <<>> THEN <<>>
    ELSE <<enrichQuoteWithStats(likes, activityLog, quote[1], userId)>>

likeQuote_noQuoteCheck(quoteId, userId) ==
    IF getUserLikeForQuote(likes, quoteId, userId) # <<>>
    THEN [err |-> NoError, likes |-> likes, activityLog |-> activityLog]
    ELSE [err |-> NoError,
          likes |-> addLike(likes, [quoteId |-> quoteId, userId |-> userId,
                                    timestamp |-> now]),
          activityLog |-> publishActivity(activityLog, QUOTE_LIKED, quoteId, userId)]

likeQuote_noExistingCheck(quoteId, userId) ==
    IF repoGetQuoteById(quoteId) = <<>>
    THEN [err |-> QUOTE_NOT_FOUND, likes |-> likes, activityLog |-> activityLog]
    ELSE [err |-> NoError,
          likes |-> addLike(likes, [quoteId |-> quoteId, userId |-> userId,
                                    timestamp |-> now]),
          activityLog |-> publishActivity(activityLog, QUOTE_LIKED, quoteId, userId)]

likeQuote(quoteId, userId) ==
    IF repoGetQuoteById(quoteId) = <<>>
    THEN [err |-> QUOTE_NOT_FOUND, likes |-> likes, activityLog |-> activityLog]
    ELSE IF getUserLikeForQuote(likes, quoteId, userId) # <<>>
    THEN [err |-> NoError, likes |-> likes, activityLog |-> activityLog]
    ELSE [err |-> NoError,
          likes |-> addLike(likes, [quoteId |-> quoteId, userId |-> userId,
                                    timestamp |-> now]),
          activityLog |-> publishActivity(activityLog, QUOTE_LIKED, quoteId, userId)]

unlikeQuote(quoteId, userId) ==
    [err |-> NoError,
     likes |-> removeLike(likes, quoteId, userId),
     activityLog |-> publishActivity(activityLog, QUOTE_UNLIKED, quoteId, userId)]

\* POST /api/quotes/:id/like: the status of the reply
likeRouteStatus(err) ==
    IF err = NoError THEN 200
    ELSE IF err = "Quote not found" THEN 404
    ELSE 400

----------------------------------------------------------------------------
(* AdvancedQuoteServiceImpl: getRandomQuote.  The random draws and the     *)
(* reply of the external service are parameters of the call.               *)

RECURSIVE GCD(_, _)
GCD(a, b) == IF b = 0 THEN a ELSE GCD(b, a % b)

\* a sort key: the exact value n / d for n >= 0 and d > 0, in lowest terms
Rat(n, d) == [num |-> n \div GCD(n, d), den |-> d \div GCD(n, d)]
RatLess(a, b) == a.num * b.den < b.num * a.den

\* Array.prototype.sort((a, b) => b.key - a.key): stable, descending by key.
\* Keys are exact where the code's are floating-point numbers.
StableSortDesc(s) ==
    LET n == Len(s)
        rank(i) == Cardinality({j \in 1..n :
                       \/ RatLess(s[i].key, s[j].key)
                       \/ (~RatLess(s[j].key, s[i].key) /\ j < i)}) + 1
    IN [r \in 1..n |-> s[CHOOSE i \in 1..n : rank(i) = r]]

\* quotes.map(quote => ({quote, likesCount})) sorted by likesCount, descending
quotesWithLikesSorted(qs, lk) ==
    StableSortDesc([i \in DOMAIN qs |->
        [quote |-> qs[i], key |-> Rat(Len(getLikesByQuoteId(lk, qs[i].id)), 1)]])

topQuotes_unsliced(qs, lk, userId) ==
    IF userId = Undefined THEN <<>>
    ELSE IF Len(qs) = 0 THEN <<>>
    ELSE quotesWithLikesSorted(qs, lk)

\* the quotes getPrioritizedQuote draws from; the empty sequence when it returns null
topQuotes(qs, lk, userId) ==
    IF userId = Undefined THEN <<>>
    ELSE IF Len(qs) = 0 THEN <<>>
    ELSE Slice(quotesWithLikesSorted(qs, lk), Min(TOP_QUOTES, Len(qs)))

\* quoteRepository.getRandomQuote: what it can resolve to
repoGetRandomQuote ==
    IF Len(quotes) = 0 THEN {<<>>} ELSE {<<quotes[i]>> : i \in DOMAIN quotes}

\* !quote || Math.random() < 0.3, for refresh the value of Math.random() < 0.3
tryFetch(local, refresh) == local = <<>> \/ refresh

rethrow_always(local) == TRUE

\* the catch block of getRandomQuote: if (!quote) throw
rethrow(local) == local = <<>>

----------------------------------------------------------------------------
(* AdvancedQuoteServiceImpl: getSimilarQuotes, searchQuotes, compareQuotes *)

calculateSimilarity_secondLengths(quote1, quote2) ==
    LET words1 == extractWords(quote1.content)
        words2 == extractWords(quote2.content)
        authorMatch == IF toLowerCase(quote1.author) = toLowerCase(quote2.author)
                       THEN AUTHOR_MATCH_WEIGHT ELSE 0
        tagIntersection == Cardinality({i \in DOMAIN quote1.tags :
            \E j \in DOMAIN quote2.tags :
                toLowerCase(quote2.tags[j]) = toLowerCase(quote1.tags[i])})
        tagDen == Max(Len(quote2.tags), 1)
        commonWords == Cardinality({i \in DOMAIN words1 :
            \E j \in DOMAIN words2 : words2[j] = words1[i]})
        wordDen == Max(Len(words2), 1)
    IN Rat(authorMatch * tagDen * wordDen
             + TAG_SIMILARITY_WEIGHT * tagIntersection * wordDen
             + WORD_SIMILARITY_WEIGHT * commonWords * tagDen,
           10 * tagDen * wordDen)

\* the exact value of the score, weights in tenths:
\* authorMatch + (tagIntersection / tagDen) * 0.2 + (commonWords / wordDen) * 0.5
calculateSimilarity(quote1, quote2) ==
    LET words1 == extractWords(quote1.content)
        words2 == extractWords(quote2.content)
        authorMatch == IF toLowerCase(quote1.author) = toLowerCase(quote2.author)
                       THEN AUTHOR_MATCH_WEIGHT ELSE 0
        tagIntersection == Cardinality({i \in DOMAIN quote1.tags :
            \E j \in DOMAIN quote2.tags :
                toLowerCase(quote2.tags[j]) = toLowerCase(quote1.tags[i])})
        tagDen == Max(Max(Len(quote1.tags), Len(quote2.tags)), 1)
        commonWords == Cardinality({i \in DOMAIN words1 :
            \E j \in DOMAIN words2 : words2[j] = words1[i]})
        wordDen == Max(Max(Len(words1), Len(words2)), 1)
    IN Rat(authorMatch * tagDen * wordDen
             + TAG_SIMILARITY_WEIGHT * tagIntersection * wordDen
             + WORD_SIMILARITY_WEIGHT * commonWords * tagDen,
           10 * tagDen * wordDen)

\* calculateSimilarity on the quotes of the catalogue, computed once
SimilarityTable == [a \in Catalogue, b \in Catalogue |-> calculateSimilarity(a, b)]

RECURSIVE FilterOtherIds(_, _)
\* allQuotes.filter(q => q.id !== quoteId)
FilterOtherIds(qs, quoteId) ==
    IF qs = <<>> THEN <<>>
    ELSE IF Head(qs).id # quoteId
         THEN <<Head(qs)>> \o FilterOtherIds(Tail(qs), quoteId)
         ELSE FilterOtherIds(Tail(qs), quoteId)

getSimilarQuotes_noFilter(quoteId, limit, userId) ==
    LET targetQuote == repoGetQuoteById(quoteId) IN
    IF targetQuote = <<>> THEN <<>>
    ELSE LET similarities == Slice(StableSortDesc(
                 [i \in DOMAIN quotes |->
                     [quote |-> quotes[i],
                      key |-> SimilarityTable[targetQuote[1], quotes[i]]]]), limit)
         IN [i \in DOMAIN similarities |->
                enrichQuoteWithStats(likes, activityLog, similarities[i].quote, userId)]

getSimilarQuotes(quoteId, limit, userId) ==
    LET targetQuote == repoGetQuoteById(quoteId) IN
    IF targetQuote = <<>> THEN <<>>
    ELSE LET others == FilterOtherIds(getAllQuotes, quoteId)
             similarities == Slice(StableSortDesc(
                 [i \in DOMAIN others |->
                     [quote |-> others[i],
                      key |-> SimilarityTable[targetQuote[1], others[i]]]]), limit)
         IN [i \in DOMAIN similarities |->
                enrichQuoteWithStats(likes, activityLog, similarities[i].quote, userId)]

\* the filter of searchQuotes
matchesSearchTerm(quote, searchTerm) ==
    \/ includes(toLowerCase(quote.content), searchTerm)
    \/ includes(toLowerCase(quote.author), searchTerm)
    \/ \E i \in DOMAIN quote.tags : includes(toLowerCase(quote.tags[i]), searchTerm)

RECURSIVE FilterMatching(_, _)
FilterMatching(qs, searchTerm) ==
    IF qs = <<>> THEN <<>>
    ELSE IF matchesSearchTerm(Head(qs), searchTerm)
         THEN <<Head(qs)>> \o FilterMatching(Tail(qs), searchTerm)
         ELSE FilterMatching(Tail(qs), searchTerm)

\* query && query.trim().length > 0, for query absent (<<>>) or a string (<<s>>)
hasSearchTerm(query) == query # <<>> /\ Len(query[1]) > 0 /\ Len(trim(query[1])) > 0

searchQuotes_noSort(query, limit, userId) ==
    LET filteredQuotes ==
            IF hasSearchTerm(query)
            THEN FilterMatching(getAllQuotes, trim(toLowerCase(query[1])))
            ELSE getAllQuotes
        limitedQuotes == Slice(filteredQuotes, limit)
    IN [i \in DOMAIN limitedQuotes |->
           enrichQuoteWithStats(likes, activityLog, limitedQuotes[i], userId)]

searchQuotes(query, limit, userId) ==
    LET filteredQuotes ==
            IF hasSearchTerm(query)
            THEN FilterMatching(getAllQuotes, trim(toLowerCase(query[1])))
            ELSE getAllQuotes
        limitedQuotes == Slice(quotesWithLikesSorted(filteredQuotes, likes), limit)
    IN [i \in DOMAIN limitedQuotes |->
           enrichQuoteWithStats(likes, activityLog, limitedQuotes[i].quote, userId)]

RECURSIVE FlattenOpt(_)
\* quotes.filter(quote => quote !== null)
FlattenOpt(opts) ==
    IF opts = <<>> THEN <<>> ELSE Head(opts) \o FlattenOpt(Tail(opts))

\* similarity > 0.7 ? 'High' : similarity > 0.4 ? 'Medium' : 'Low'
similarityLevel(score) ==
    IF RatLess(Rat(7, 10), score) THEN "High"
    ELSE IF RatLess(Rat(4, 10), score) THEN "Medium"
    ELSE "Low"

RECURSIVE pairsFrom(_, _, _)
\* the loops of calculateQuoteSimilarities, from indexes (i, j) on
pairsFrom(qs, i, j) ==
    IF i > Len(qs) THEN <<>>
    ELSE IF j > Len(qs) THEN pairsFrom(qs, i + 1, i + 2)
    ELSE <<[field |-> "content",
            score |-> SimilarityTable[qs[i], qs[j]],
            description |-> similarityLevel(SimilarityTable[qs[i], qs[j]])]>>
         \o pairsFrom(qs, i, j + 1)

calculateQuoteSimilarities(qs) == pairsFrom(qs, 1, 2)

compareQuotes_anyValid(quoteIds) ==
    LET validQuotes == FlattenOpt([i \in DOMAIN quoteIds |-> repoGetQuoteById(quoteIds[i])])
    IN IF Len(validQuotes) < 1
       THEN [err |-> QUOTE_COMPARISON_MIN, val |-> <<>>]
       ELSE [err |-> NoError,
             val |-> <<[quotes |-> validQuotes,
                        similarities |-> calculateQuoteSimilarities(validQuotes)]>>]

\* the differences, the recommendation text, the overall similarity and the
\* metrics of the result are computed from validQuotes and similarities alone
compareQuotes(quoteIds) ==
    LET validQuotes == FlattenOpt([i \in DOMAIN quoteIds |-> repoGetQuoteById(quoteIds[i])])
    IN IF Len(validQuotes) < 2
       THEN [err |-> QUOTE_COMPARISON_MIN, val |-> <<>>]
       ELSE [err |-> NoError,
             val |-> <<[quotes |-> validQuotes,
                        similarities |-> calculateQuoteSimilarities(validQuotes)]>>]

----------------------------------------------------------------------------
(* AdvancedQuoteServiceImpl: collections, a Map from id to QuoteCollection, *)
(* kept here as the sequence of its values in insertion order               *)

CollectionIds == {"c1", "c2"}

\* this.collections.get(id): <<collection>>, or <<>> for undefined
collectionsGet(cs, id) ==
    IF \E i \in DOMAIN cs : cs[i].id = id
    THEN <<cs[CHOOSE i \in DOMAIN cs : cs[i].id = id]>>
    ELSE <<>>

\* this.collections.set(collection.id, collection): an existing key keeps its place
collectionsSet(cs, collection) ==
    IF \E i \in DOMAIN cs : cs[i].id = collection.id
    THEN [i \in DOMAIN cs |-> IF cs[i].id = collection.id THEN collection ELSE cs[i]]
    ELSE Append(cs, collection)

RECURSIVE collectionsDelete(_, _)
\* this.collections.delete(id)
collectionsDelete(cs, id) ==
    IF cs = <<>> THEN <<>>
    ELSE IF Head(cs).id = id THEN collectionsDelete(Tail(cs), id)
         ELSE <<Head(cs)>> \o collectionsDelete(Tail(cs), id)

RECURSIVE FilterByOwner(_, _)
FilterByOwner(cs, userId) ==
    IF cs = <<>> THEN <<>>
    ELSE IF Head(cs).userId = userId
         THEN <<Head(cs)>> \o FilterByOwner(Tail(cs), userId)
         ELSE FilterByOwner(Tail(cs), userId)

getUserCollections(userId) == FilterByOwner(collections, userId)

getCollection(id, userId) ==
    LET collection == collectionsGet(collections, id) IN
    IF collection = <<>> \/ collection[1].userId # userId
    THEN [err |-> COLLECTION_NOT_FOUND, collections |-> collections, val |-> <<>>]
    ELSE [err |-> NoError, collections |-> collections, val |-> collection]

\* id is the string generateId draws; isPublic is FALSE for undefined
createCollection(id, name, description, isPublic, userId) ==
    LET collection == [id |-> id, name |-> name, description |-> description,
                       quotes |-> <<>>, createdAt |-> now, updatedAt |-> now,
                       isPublic |-> isPublic, likes |-> 0, userId |-> userId]
    IN [err |-> NoError,
        collections |-> collectionsSet(collections, collection),
        val |-> <<collection>>]

addQuoteToCollection_noSomeCheck(collectionId, quoteId, userId) ==
    LET collection == collectionsGet(collections, collectionId)
        quote == repoGetQuoteById(quoteId)
    IN IF collection = <<>> \/ collection[1].userId # userId
       THEN [err |-> COLLECTION_NOT_FOUND, collections |-> collections, val |-> <<>>]
       ELSE IF quote = <<>>
       THEN [err |-> QUOTE_NOT_FOUND, collections |-> collections, val |-> <<>>]
       ELSE LET updated == [collection[1] EXCEPT
                                !.quotes = Append(@, quote[1]), !.updatedAt = now]
            IN [err |-> NoError,
                collections |-> collectionsSet(collections, updated),
                val |-> <<updated>>]

addQuoteToCollection(collectionId, quoteId, userId) ==
    LET collection == collectionsGet(collections, collectionId)
        quote == repoGetQuoteById(quoteId)
    IN IF collection = <<>> \/ collection[1].userId # userId
       THEN [err |-> COLLECTION_NOT_FOUND, collections |-> collections, val |-> <<>>]
       ELSE IF quote = <<>>
       THEN [err |-> QUOTE_NOT_FOUND, collections |-> collections, val |-> <<>>]
       ELSE IF \E i \in DOMAIN collection[1].quotes : collection[1].quotes[i].id = quoteId
       THEN [err |-> NoError, collections |-> collections, val |-> collection]
       ELSE LET updated == [collection[1] EXCEPT
                                !.quotes = Append(@, quote[1]), !.updatedAt = now]
            IN [err |-> NoError,
                collections |-> collectionsSet(collections, updated),
                val |-> <<updated>>]

removeQuoteFromCollection(collectionId, quoteId, userId) ==
    LET collection == collectionsGet(collections, collectionId) IN
    IF collection = <<>> \/ collection[1].userId # userId
    THEN [err |-> COLLECTION_NOT_FOUND, collections |-> collections, val |-> <<>>]
    ELSE LET updated == [collection[1] EXCEPT
                             !.quotes = FilterOtherIds(@, quoteId), !.updatedAt = now]
         IN [err |-> NoError,
             collections |-> collectionsSet(collections, updated),
             val |-> <<updated>>]

deleteCollection_noOwnerCheck(collectionId, userId) ==
    LET collection == collectionsGet(collections, collectionId) IN
    IF collection = <<>>
    THEN [err |-> COLLECTION_NOT_FOUND, collections |-> collections, val |-> <<>>]
    ELSE [err |-> NoError,
          collections |-> collectionsDelete(collections, collectionId),
          val |-> <<>>]

deleteCollection(collectionId, userId) ==
    LET collection == collectionsGet(collections, collectionId) IN
    IF collection = <<>> \/ collection[1].userId # userId
    THEN [err |-> COLLECTION_NOT_FOUND, collections |-> collections, val |-> <<>>]
    ELSE [err |-> NoError,
          collections |-> collectionsDelete(collections, collectionId),
          val |-> <<>>]

----------------------------------------------------------------------------
(* AdvancedQuoteServiceImpl: userPreferences, a Map from userId to        *)
(* UserPreferences, kept as the sequence of its values in insertion order. *)
(* An optional list argument is <<>> when left out and <<list>> when given. *)

\* this.userPreferences.get(userId): <<preferences>>, or <<>> for undefined
preferencesGet(ps, userId) ==
    IF \E i \in DOMAIN ps : ps[i].userId = userId
    THEN <<ps[CHOOSE i \in DOMAIN ps : ps[i].userId = userId]>>
    ELSE <<>>

\* this.userPreferences.set(preferences.userId, preferences)
preferencesSet(ps, preferences) ==
    IF \E i \in DOMAIN ps : ps[i].userId = preferences.userId
    THEN [i \in DOMAIN ps |-> IF ps[i].userId = preferences.userId
                              THEN preferences ELSE ps[i]]
    ELSE Append(ps, preferences)

\* the outcome of getUserPreferences(userId) on the preferences ps
getUserPreferences(ps, userId) ==
    IF preferencesGet(ps, userId) # <<>>
    THEN [userPreferences |-> ps, val |-> preferencesGet(ps, userId)]
    ELSE LET preferences == [userId |-> userId, favoriteAuthors |-> <<>>,
                             favoriteTags |-> <<>>, likedQuotes |-> <<>>,
                             createdAt |-> now]
         IN [userPreferences |-> preferencesSet(ps, preferences),
             val |-> <<preferences>>]

updateUserPreferences_replaceBoth(userId, favoriteAuthors, favoriteTags) ==
    LET got == getUserPreferences(userPreferences, userId)
        preferences == [got.val[1] EXCEPT
            !.favoriteAuthors = IF favoriteAuthors # <<>> THEN favoriteAuthors[1] ELSE <<>>,
            !.favoriteTags = IF favoriteTags # <<>> THEN favoriteTags[1] ELSE <<>>]
    IN [userPreferences |-> preferencesSet(got.userPreferences, preferences),
        val |-> <<preferences>>]

\* if (favoriteAuthors): an array, empty or not, is truthy
updateUserPreferences(userId, favoriteAuthors, favoriteTags) ==
    LET got == getUserPreferences(userPreferences, userId)
        preferences == [got.val[1] EXCEPT
            !.favoriteAuthors = IF favoriteAuthors # <<>> THEN favoriteAuthors[1] ELSE @,
            !.favoriteTags = IF favoriteTags # <<>> THEN favoriteTags[1] ELSE @]
    IN [userPreferences |-> preferencesSet(got.userPreferences, preferences),
        val |-> <<preferences>>]

----------------------------------------------------------------------------
(* AdvancedQuoteServiceImpl: getTrendingQuotes and getSmartRecommendations. *)
(* Scores are exact where the code's are floating-point numbers; weights   *)
(* are in tenths and time ranges in hours.                                 *)

\* DOMAIN_CONSTANTS.TIME_RANGES[timeRange] || TIME_RANGES['24h'], for the
\* ranges other than 'all'
getTimeRangeMs(timeRange) ==
    IF timeRange = "1h" THEN 1
    ELSE IF timeRange = "7d" THEN 7 * 24
    ELSE IF timeRange = "30d" THEN 30 * 24
    ELSE 24

\* new Date(Date.now() - timeRangeMs): <<time>>, or <<>> for an Invalid Date.
\* For 'all' the range is Number.MAX_SAFE_INTEGER = 9007199254740991 ms, and
\* Date.now() less that is below -8.64e15, the least time value of a Date.
cutoffTimeOf(timeRange) ==
    IF timeRange = "all" THEN <<>> ELSE <<now - getTimeRangeMs(timeRange)>>

\* new Date(timestamp) >= cutoffTime: false against an Invalid Date
atOrAfter(timestamp, cutoffTime) == cutoffTime # <<>> /\ timestamp >= cutoffTime[1]

RECURSIVE FilterRecentLikes(_, _)
\* the QUOTE_LIKED events of log at or after cutoffTime
FilterRecentLikes(log, cutoffTime) ==
    IF log = <<>> THEN <<>>
    ELSE IF Head(log).type = QUOTE_LIKED /\ atOrAfter(Head(log).timestamp, cutoffTime)
         THEN <<Head(log)>> \o FilterRecentLikes(Tail(log), cutoffTime)
         ELSE FilterRecentLikes(Tail(log), cutoffTime)

RECURSIVE countByQuote(_, _)
\* quoteLikeCounts: the entries [quoteId, count] in the order the keys were first set
countByQuote(events, counts) ==
    IF events = <<>> THEN counts
    ELSE countByQuote(Tail(events),
           IF \E i \in DOMAIN counts : counts[i].quoteId = Head(events).quoteId
           THEN [i \in DOMAIN counts |->
                    IF counts[i].quoteId = Head(events).quoteId
                    THEN [counts[i] EXCEPT !.key = Rat(@.num + 1, 1)]
                    ELSE counts[i]]
           ELSE Append(counts, [quoteId |-> Head(events).quoteId, key |-> Rat(1, 1)]))

getTrendingQuotes_noSort(limit, timeRange) ==
    LET recentLikes == FilterRecentLikes(activityLog, cutoffTimeOf(timeRange))
        trendingQuotes == Slice(countByQuote(recentLikes, <<>>), limit)
    IN FlattenOpt([i \in DOMAIN trendingQuotes |->
                      getQuoteById(trendingQuotes[i].quoteId, Undefined)])

getTrendingQuotes(limit, timeRange) ==
    LET recentLikes == FilterRecentLikes(activityLog, cutoffTimeOf(timeRange))
        trendingQuotes == Slice(StableSortDesc(countByQuote(recentLikes, <<>>)), limit)
    IN FlattenOpt([i \in DOMAIN trendingQuotes |->
                      getQuoteById(trendingQuotes[i].quoteId, Undefined)])

RatAdd(a, b) == Rat(a.num * b.den + b.num * a.den, a.den * b.den)

RECURSIVE RatSum(_)
\* similarities.reduce((sum, sim) => sum + sim, 0)
RatSum(rs) == IF rs = <<>> THEN Rat(0, 1) ELSE RatAdd(Head(rs), RatSum(Tail(rs)))

\* Math.min(score, 1.0)
confidenceOf(score) == IF RatLess(Rat(1, 1), score) THEN Rat(1, 1) ELSE score

\* the ids of the stored quotes that userId likes
getUserLikedQuotes(userId) ==
    {quotes[i].id : i \in {j \in DOMAIN quotes :
        getUserLikeForQuote(likes, quotes[j].id, userId) # <<>>}}

RECURSIVE FilterLiked(_, _, _)
\* allQuotes.filter(q => userLikedQuotes.includes(q.id)), or its complement
FilterLiked(qs, userLikedQuotes, wanted) ==
    IF qs = <<>> THEN <<>>
    ELSE IF (Head(qs).id \in userLikedQuotes) = wanted
         THEN <<Head(qs)>> \o FilterLiked(Tail(qs), userLikedQuotes, wanted)
         ELSE FilterLiked(Tail(qs), userLikedQuotes, wanted)

calculateContentSimilarity(quote, userLikedQuotes, allQuotes) ==
    IF userLikedQuotes = {} THEN Rat(0, 1)
    ELSE LET likedQuotes == FilterLiked(allQuotes, userLikedQuotes, TRUE)
             sum == RatSum([i \in DOMAIN likedQuotes |->
                               SimilarityTable[quote, likedQuotes[i]]])
         IN IF Len(likedQuotes) > 0
            THEN Rat(sum.num, sum.den * Len(likedQuotes))
            ELSE Rat(0, 1)

\* the score of quote for the preferences: favourite author and share of favourite tags
collaborativeScore(preferences, quote) ==
    LET matchingTags == Cardinality({i \in DOMAIN quote.tags :
            \E j \in DOMAIN preferences.favoriteTags :
                preferences.favoriteTags[j] = quote.tags[i]})
        tagDen == Max(Len(quote.tags), 1)
        authorPart == IF \E j \in DOMAIN preferences.favoriteAuthors :
                            preferences.favoriteAuthors[j] = quote.author
                      THEN PREFERENCE_AUTHOR_WEIGHT ELSE 0
    IN Rat(authorPart * tagDen + PREFERENCE_TAG_WEIGHT * matchingTags, 10 * tagDen)

\* ps: the preferences after getSmartRecommendations has read those of userId
getCollaborativeRecommendations(ps, userId, allQuotes, limit) ==
    LET preferences == getUserPreferences(ps, userId).val[1]
        candidates == FilterLiked(allQuotes, getUserLikedQuotes(userId), FALSE)
    IN Slice(StableSortDesc([i \in DOMAIN candidates |->
           [quote |-> candidates[i],
            key |-> collaborativeScore(preferences, candidates[i]),
            reason |-> <<"Based on your preferences for",
                         preferences.favoriteAuthors, preferences.favoriteTags>>]]),
         limit)

contentBasedScore(preferences, quote, userLikedQuotes, allQuotes) ==
    LET contentScore == calculateContentSimilarity(quote, userLikedQuotes, allQuotes)
        authorPart == IF \E j \in DOMAIN preferences.favoriteAuthors :
                            preferences.favoriteAuthors[j] = quote.author
                      THEN PREFERENCE_AUTHOR_WEIGHT ELSE 0
    IN RatAdd(Rat(contentScore.num * CONTENT_SIMILARITY_WEIGHT, contentScore.den * 10),
              Rat(authorPart, 10))

getContentBasedRecommendations(preferences, allQuotes, userLikedQuotes, limit) ==
    LET candidates == FilterLiked(allQuotes, userLikedQuotes, FALSE)
    IN Slice(StableSortDesc([i \in DOMAIN candidates |->
           [quote |-> candidates[i],
            key |-> contentBasedScore(preferences, candidates[i], userLikedQuotes, allQuotes),
            reason |-> <<"Based on content similarity to your liked quotes">>]]),
         limit)

getTrendingRecommendations(limit) ==
    LET trendingQuotes == getTrendingQuotes(limit, "24h")
    IN [i \in DOMAIN trendingQuotes |->
           [quote |-> QuoteOf(trendingQuotes[i]),
            key |-> Rat(TRENDING_SCORE, 10),
            reason |-> <<"Currently trending quotes">>]]

RECURSIVE FilterFirstById(_, _)
\* combined.filter((rec, index, self) => index === self.findIndex(same quote id))
FilterFirstById(recs, seen) ==
    IF recs = <<>> THEN <<>>
    ELSE IF Head(recs).quote.id \in seen THEN FilterFirstById(Tail(recs), seen)
         ELSE <<Head(recs)>> \o FilterFirstById(Tail(recs), seen \cup {Head(recs).quote.id})

mergeRecommendations_contentFirst(collaborative, contentBased, limit) ==
    Slice(StableSortDesc(FilterFirstById(contentBased \o collaborative, {})), limit)

mergeRecommendations(collaborative, contentBased, limit) ==
    Slice(StableSortDesc(FilterFirstById(collaborative \o contentBased, {})), limit)

\* Math.ceil(limit / 2)
ceilHalf(limit) == (limit + 1) \div 2

\* the recommendations of getSmartRecommendations before they are enriched
recommend(ps, userId, limit, algorithm) ==
    LET preferences == getUserPreferences(ps, userId).val[1]
        userLikedQuotes == getUserLikedQuotes(userId)
    IN IF algorithm = "collaborative"
       THEN getCollaborativeRecommendations(ps, userId, getAllQuotes, limit)
       ELSE IF algorithm = "content-based"
       THEN getContentBasedRecommendations(preferences, getAllQuotes, userLikedQuotes, limit)
       ELSE IF algorithm = "trending"
       THEN getTrendingRecommendations(limit)
       ELSE mergeRecommendations(
                getCollaborativeRecommendations(ps, userId, getAllQuotes, ceilHalf(limit)),
                getContentBasedRecommendations(preferences, getAllQuotes, userLikedQuotes,
                                               ceilHalf(limit)),
                limit)

\* the confidence of a trending entry is TRENDING_CONFIDENCE, of any other min(score, 1)
getSmartRecommendations(userId, limit, algorithm, includeExplanation) ==
    LET ps == getUserPreferences(userPreferences, userId).userPreferences
        recommendations == recommend(ps, userId, limit, algorithm)
    IN [userPreferences |-> ps,
        val |-> <<[algorithm |-> algorithm,
                   recommendations |-> [i \in DOMAIN recommendations |->
                      [quote |-> enrichQuoteWithStats(likes, activityLog,
                                     recommendations[i].quote, userId),
                       score |-> recommendations[i].key,
                       reason |-> IF includeExplanation
                                  THEN recommendations[i].reason ELSE <<>>,
                       confidence |-> IF algorithm = "trending"
                                      THEN Rat(TRENDING_CONFIDENCE, 10)
                                      ELSE confidenceOf(recommendations[i].key)]]]>>]

----------------------------------------------------------------------------
(* Calls *)

Init ==
    /\ quotes = <<>>
    /\ likes = [q \in QuoteIds \cup MoreQuoteIds |-> <<>>]
    /\ activityLog = <<>>
    /\ userPreferences = <<>>
    /\ collections = <<>>
    /\ pubsub \in BOOLEAN
    /\ now = 0
    /\ requests = [calls |-> <<>>, likeKeys |-> {}]
    /\ ret = [op |-> "new", arg |-> <<>>, pre |-> <<>>, err |-> NoError, val |-> <<>>]

\* what held of quote quoteId and user userId when the call began
Before(quoteId, userId) ==
    [stored |-> \E i \in DOMAIN quotes : quotes[i].id = quoteId,
     liked |-> \E i \in DOMAIN likes[quoteId] : likes[quoteId][i].userId = userId,
     count |-> Len(likes[quoteId])]

\* quoteRepository.saveQuote(quote), as the tests seed the store
Call_saveQuote(quote) ==
    /\ quotes' = saveQuote(quotes, quote)
    /\ ret' = [op |-> "saveQuote", arg |-> <<quote.id>>, pre |-> <<>>,
               err |-> NoError, val |-> <<>>]
    /\ UNCHANGED <<likes, activityLog, userPreferences, collections, pubsub, requests, now>>

\* quoteRepository.addLike(like), as the tests call it
Call_addLike(quoteId, userId) ==
    /\ likes' = addLike(likes, [quoteId |-> quoteId, userId |-> userId, timestamp |-> now])
    /\ ret' = [op |-> "addLike", arg |-> <<quoteId, userId>>,
               pre |-> Before(quoteId, userId), err |-> NoError, val |-> <<>>]
    /\ UNCHANGED <<quotes, activityLog, userPreferences, collections, pubsub, requests, now>>

\* quoteRepository.removeLike(quoteId, userId)
Call_removeLike(quoteId, userId) ==
    /\ likes' = removeLike(likes, quoteId, userId)
    /\ ret' = [op |-> "removeLike", arg |-> <<quoteId, userId>>,
               pre |-> Before(quoteId, userId), err |-> NoError, val |-> <<>>]
    /\ UNCHANGED <<quotes, activityLog, userPreferences, collections, pubsub, requests, now>>

Call_getQuoteById(id, userId) ==
    /\ ret' = [op |-> "getQuoteById", arg |-> <<id, userId>>,
               pre |-> Before(id, userId), err |-> NoError,
               val |-> getQuoteById(id, userId)]
    /\ UNCHANGED <<quotes, likes, activityLog, userPreferences, collections, pubsub, requests, now>>

\* POST /api/quotes/:id/like and, behind it, likeQuote(quoteId, userId);
\* val is the status of the reply
Call_likeQuoteWithin(quoteId, userId, maxLog) ==
    \E out \in {likeQuote(quoteId, userId)} :
    /\ Len(out.activityLog) <= maxLog
    /\ likes' = out.likes
    /\ activityLog' = out.activityLog
    /\ ret' = [op |-> "likeQuote", arg |-> <<quoteId, userId>>,
               pre |-> Before(quoteId, userId), err |-> out.err,
               val |-> <<likeRouteStatus(out.err)>>]
    /\ UNCHANGED <<quotes, userPreferences, collections, pubsub, requests, now>>

Call_likeQuote(quoteId, userId) == Call_likeQuoteWithin(quoteId, userId, MaxLog)

Call_unlikeQuoteWithin(quoteId, userId, maxLog) ==
    \E out \in {unlikeQuote(quoteId, userId)} :
    /\ Len(out.activityLog) <= maxLog
    /\ likes' = out.likes
    /\ activityLog' = out.activityLog
    /\ ret' = [op |-> "unlikeQuote", arg |-> <<quoteId, userId>>,
               pre |-> Before(quoteId, userId), err |-> out.err, val |-> <<>>]
    /\ UNCHANGED <<quotes, userPreferences, collections, pubsub, requests, now>>

Call_unlikeQuote(quoteId, userId) == Call_unlikeQuoteWithin(quoteId, userId, MaxLog)

\* getRandomQuote(userId).  fetchedQuotes: what fetchRandomQuote can resolve to;
\* <<>> stands for its rejection.  A draw the code does not reach (short-circuit
\* evaluation, a fetch that is not attempted) has one value.
Call_getRandomQuote(userId, fetchedQuotes) ==
    \E local \in repoGetRandomQuote :
    \E refresh \in (IF local = <<>> THEN {FALSE} ELSE BOOLEAN) :
    \E fetched \in (IF tryFetch(local, refresh)
                    THEN {<<>>} \cup {<<q>> : q \in fetchedQuotes} ELSE {<<>>}) :
    LET saved == tryFetch(local, refresh) /\ fetched # <<>>
        fetchCalls == IF tryFetch(local, refresh) THEN 1 ELSE 0
        call == [userId |-> userId, fetched |-> fetched, fetchCalls |-> fetchCalls,
                 chosen |-> IF saved THEN fetched ELSE local]
        pre == [storeSize |-> Len(quotes)]
    IN
    IF tryFetch(local, refresh) /\ fetched = <<>> /\ rethrow(local)
    THEN /\ ret' = [op |-> "getRandomQuote", arg |-> call, pre |-> pre,
                    err |-> EXTERNAL_API_FAILED, val |-> <<>>]
         /\ UNCHANGED <<quotes, likes, activityLog, userPreferences, collections,
                        pubsub, requests, now>>
    ELSE
    \E quotes1 \in {IF saved THEN saveQuote(quotes, fetched[1]) ELSE quotes} :
    \E log1 \in {IF saved
                 THEN publishActivity(activityLog, NEW_QUOTE_ADDED, Undefined, Undefined)
                 ELSE activityLog} :
    \E top \in {topQuotes(quotes1, likes, userId)} :
    \E prioritizedQuote \in (IF top = <<>> THEN {<<>>}
                             ELSE {<<top[i].quote>> : i \in DOMAIN top}) :
    \E usePrio \in (IF prioritizedQuote = <<>> THEN {FALSE} ELSE BOOLEAN) :
    \E quote \in {IF prioritizedQuote # <<>> /\ usePrio THEN prioritizedQuote
                  ELSE IF saved THEN fetched ELSE local} :
        /\ Len(log1) <= MaxLog
        /\ quotes' = quotes1
        /\ activityLog' = log1
        /\ ret' = [op |-> "getRandomQuote", arg |-> call, pre |-> pre, err |-> NoError,
                   val |-> IF quote = <<>> THEN <<>>
                           ELSE <<enrichQuoteWithStats(likes, log1, quote[1], userId)>>]
        /\ UNCHANGED <<likes, userPreferences, collections, pubsub, requests, now>>

\* the quotes the calls of Spec store
CoreQuotes == {Q1, Q2, Q1b}

Next ==
    \/ \E quote \in CoreQuotes : Call_saveQuote(quote)
    \/ \E userId \in OptUsers : Call_getRandomQuote(userId, CoreQuotes)
    \/ \E id \in QuoteIds, userId \in OptUsers : Call_getQuoteById(id, userId)
    \/ \E id \in QuoteIds, userId \in Users : Call_likeQuote(id, userId)
    \/ \E id \in QuoteIds, userId \in Users : Call_unlikeQuote(id, userId)

Spec == Init /\ [][Next]_vars

----------------------------------------------------------------------------
(* The queries, on a store seeded by saveQuote and liked through likeQuote; *)
(* the service is constructed without pubsub, as in the unit tests.         *)

Call_getSimilarQuotes(quoteId, limit, userId) ==
    /\ ret' = [op |-> "getSimilarQuotes", arg |-> <<quoteId, limit, userId>>,
               pre |-> <<>>, err |-> NoError,
               val |-> getSimilarQuotes(quoteId, limit, userId)]
    /\ UNCHANGED <<quotes, likes, activityLog, userPreferences, collections, pubsub, requests, now>>

Call_searchQuotes(query, limit, userId) ==
    /\ ret' = [op |-> "searchQuotes", arg |-> <<query, limit, userId>>,
               pre |-> <<>>, err |-> NoError,
               val |-> searchQuotes(query, limit, userId)]
    /\ UNCHANGED <<quotes, likes, activityLog, userPreferences, collections, pubsub, requests, now>>

Call_compareQuotes(quoteIds) ==
    \E out \in {compareQuotes(quoteIds)} :
    /\ ret' = [op |-> "compareQuotes", arg |-> <<quoteIds>>,
               pre |-> <<>>, err |-> out.err, val |-> out.val]
    /\ UNCHANGED <<quotes, likes, activityLog, userPreferences, collections, pubsub, requests, now>>

InitPlain == Init /\ pubsub = FALSE

QueryQuotes == {Q1, Q2, Q3}
Limits == 0..MaxLimit

\* absent, empty, blank, and terms in other case and with spaces around them
Queries ==
    { <<>>,
      << <<>> >>,
      << <<" ">> >>,
      << <<"l","i","f","e">> >>,
      << <<"A","N","N">> >>,
      << <<" ","j","o","y"," ">> >>,
      << <<"z","z">> >> }

RECURSIVE SeqsUpTo(_, _)
\* the sequences over S of length at most n
SeqsUpTo(S, n) ==
    IF n = 0 THEN {<<>>}
    ELSE LET shorter == SeqsUpTo(S, n - 1)
         IN shorter \cup {Append(t, x) : t \in shorter, x \in S}

IdLists == SeqsUpTo(QuoteIds, MaxIds)

NextSimilar ==
    \/ \E quote \in QueryQuotes : Call_saveQuote(quote)
    \/ \E id \in {"2"}, userId \in Users : Call_likeQuote(id, userId)
    \/ \E id \in QuoteIds, limit \in Limits, userId \in {Undefined, "u1"} :
          Call_getSimilarQuotes(id, limit, userId)

SpecSimilar == InitPlain /\ [][NextSimilar]_vars

NextSearch ==
    \/ \E quote \in QueryQuotes : Call_saveQuote(quote)
    \/ \E id \in {"2", "3"}, userId \in Users : Call_likeQuote(id, userId)
    \/ \E query \in Queries, limit \in Limits : Call_searchQuotes(query, limit, "u1")

SpecSearch == InitPlain /\ [][NextSearch]_vars

NextCompare ==
    \/ \E quote \in QueryQuotes : Call_saveQuote(quote)
    \/ \E quoteIds \in IdLists : Call_compareQuotes(quoteIds)

SpecCompare == InitPlain /\ [][NextCompare]_vars

----------------------------------------------------------------------------
(* The collection operations, with the clock that stamps them *)

\* time passes between calls
Tick ==
    /\ now < MaxTime
    /\ now' = now + 1
    /\ ret' = [op |-> "tick", arg |-> <<>>, pre |-> <<>>, err |-> NoError, val |-> <<>>]
    /\ UNCHANGED <<quotes, likes, activityLog, userPreferences, collections, pubsub, requests>>

\* a call on collections with outcome out
CollectionCall(op, arg, out) ==
    /\ collections' = out.collections
    /\ ret' = [op |-> op, arg |-> arg, pre |-> <<>>, err |-> out.err, val |-> out.val]
    /\ UNCHANGED <<quotes, likes, activityLog, userPreferences, pubsub, requests, now>>

Call_getUserCollections(userId) ==
    CollectionCall("getUserCollections", <<userId>>,
        [err |-> NoError, collections |-> collections, val |-> getUserCollections(userId)])

Call_getCollection(id, userId) ==
    \E out \in {getCollection(id, userId)} :
        CollectionCall("getCollection", <<id, userId>>, out)

Call_createCollection(name, description, isPublic, userId) ==
    \E id \in CollectionIds :
    \E out \in {createCollection(id, name, description, isPublic, userId)} :
        CollectionCall("createCollection", <<name, description, isPublic, userId>>, out)

Call_addQuoteToCollection(collectionId, quoteId, userId) ==
    \E out \in {addQuoteToCollection(collectionId, quoteId, userId)} :
        CollectionCall("addQuoteToCollection", <<collectionId, quoteId, userId>>, out)

Call_removeQuoteFromCollection(collectionId, quoteId, userId) ==
    \E out \in {removeQuoteFromCollection(collectionId, quoteId, userId)} :
        CollectionCall("removeQuoteFromCollection", <<collectionId, quoteId, userId>>, out)

Call_deleteCollection(collectionId, userId) ==
    \E out \in {deleteCollection(collectionId, userId)} :
        CollectionCall("deleteCollection", <<collectionId, userId>>, out)

CollQuoteIds == {"1", "2"}

NextColl ==
    \/ Tick
    \/ Call_saveQuote(Q1)
    \/ \E userId \in Users : Call_createCollection("favs", <<>>, FALSE, userId)
    \/ \E userId \in Users : Call_getUserCollections(userId)
    \/ \E id \in CollectionIds, userId \in Users : Call_getCollection(id, userId)
    \/ \E id \in CollectionIds, quoteId \in CollQuoteIds, userId \in Users :
          Call_addQuoteToCollection(id, quoteId, userId)
    \/ \E id \in CollectionIds, quoteId \in CollQuoteIds, userId \in Users :
          Call_removeQuoteFromCollection(id, quoteId, userId)
    \/ \E id \in CollectionIds, userId \in Users : Call_deleteCollection(id, userId)

SpecColl == InitPlain /\ [][NextColl]_vars

----------------------------------------------------------------------------
(* getRandomQuote on a store that grows past TOP_QUOTES quotes *)

SeedOrder == <<Q1, Q2, Q3, Q4, Q5>>

\* the seeding stores the quotes of SeedOrder one after the other
Call_seedNext ==
    \E k \in DOMAIN SeedOrder :
        /\ \A j \in 1..(k - 1) : \E i \in DOMAIN quotes : quotes[i].id = SeedOrder[j].id
        /\ \A i \in DOMAIN quotes : quotes[i].id # SeedOrder[k].id
        /\ Call_saveQuote(SeedOrder[k])

\* u1 likes the quotes of SeedOrder one after the other
Call_likeNext ==
    \E k \in DOMAIN SeedOrder :
        /\ \A j \in 1..(k - 1) : likes[SeedOrder[j].id] # <<>>
        /\ likes[SeedOrder[k].id] = <<>>
        /\ Call_likeQuote(SeedOrder[k].id, "u1")

NextRandom ==
    \/ Call_seedNext
    \/ Call_likeNext
    \/ \E userId \in {Undefined, "u2"} : Call_getRandomQuote(userId, {Q6})

SpecRandom == InitPlain /\ [][NextRandom]_vars

----------------------------------------------------------------------------
(* The scores of a quote that many users like, over two days *)

Crowd == <<"u1", "u2", "u3", "u4", "u5", "u6", "u7", "u8", "u9", "u10", "u11", "u12">>

\* the next user of Crowd likes quote "1"
Call_crowdLike ==
    \E k \in DOMAIN Crowd :
        /\ k <= MaxLikes
        /\ k = Len(likes["1"]) + 1
        /\ Call_likeQuoteWithin("1", Crowd[k], MaxLikes)

\* hours pass between calls
Advance(hours) ==
    /\ now + hours <= MaxClock
    /\ now' = now + hours
    /\ ret' = [op |-> "tick", arg |-> <<>>, pre |-> <<>>, err |-> NoError, val |-> <<>>]
    /\ UNCHANGED <<quotes, likes, activityLog, userPreferences, collections, pubsub, requests>>

NextScores ==
    \/ Call_saveQuote(Q1)
    \/ Call_crowdLike
    \/ Advance(12)
    \/ Call_getQuoteById("1", Undefined)

SpecScores == Init /\ [][NextScores]_vars

----------------------------------------------------------------------------
(* calculateSimilarity on pairs of sample quotes *)

SampleAuthors == { <<"A","n","n">>, <<"a","n","n">>, <<"B","o","b">> }
\* none, one, a repeated one, two in another case
SampleTags ==
    { <<>>,
      << <<"j","o","y">> >>,
      << <<"j","o","y">>, <<"j","o","y">> >>,
      << <<"J","o","y">>, <<"l","i","f","e">> >> }
\* empty, no word longer than 2 characters, a repeated word, words and punctuation
SampleContents ==
    { <<>>,
      <<"B","e"," ","a","!">>,
      <<"j","o","y"," ","j","o","y">>,
      <<"J","o","y",","," ","l","i","f","e","!">> }

SampleQuotes ==
    {[id |-> "1", content |-> c, author |-> a, tags |-> t, length |-> Len(c)] :
        c \in SampleContents, a \in SampleAuthors, t \in SampleTags}

\* the service as constructed, and the two quotes to be scored
InitScorer ==
    /\ quotes = <<>>
    /\ likes = [q \in QuoteIds \cup MoreQuoteIds |-> <<>>]
    /\ activityLog = <<>>
    /\ userPreferences = <<>>
    /\ collections = <<>>
    /\ pubsub = FALSE
    /\ now = 0
    /\ requests = [calls |-> <<>>, likeKeys |-> {}]
    /\ \E quote1, quote2 \in SampleQuotes :
          ret = [op |-> "input", arg |-> <<quote1, quote2>>, pre |-> <<>>,
                 err |-> NoError, val |-> <<>>]

Call_calculateSimilarity(quote1, quote2) ==
    /\ ret' = [op |-> "calculateSimilarity", arg |-> <<quote1, quote2>>,
               pre |-> <<>>, err |-> NoError,
               val |-> <<calculateSimilarity(quote1, quote2)>>]
    /\ UNCHANGED <<quotes, likes, activityLog, userPreferences, collections, pubsub, requests, now>>

NextScorer ==
    /\ ret.op = "input"
    /\ Call_calculateSimilarity(ret.arg[1], ret.arg[2])

SpecScorer == InitScorer /\ [][NextScorer]_vars

----------------------------------------------------------------------------
(* The preferences of the users *)

\* a call on userPreferences with outcome out
PreferencesCall(op, arg, out) ==
    /\ userPreferences' = out.userPreferences
    /\ ret' = [op |-> op, arg |-> arg, pre |-> <<>>, err |-> NoError, val |-> out.val]
    /\ UNCHANGED <<quotes, likes, activityLog, collections, pubsub, requests, now>>

Call_getUserPreferences(userId) ==
    \E out \in {getUserPreferences(userPreferences, userId)} :
        PreferencesCall("getUserPreferences", <<userId>>, out)

Call_updateUserPreferences(userId, favoriteAuthors, favoriteTags) ==
    \E out \in {updateUserPreferences(userId, favoriteAuthors, favoriteTags)} :
        PreferencesCall("updateUserPreferences",
                        <<userId, favoriteAuthors, favoriteTags>>, out)

\* left out, empty, one author
OptAuthorLists == { <<>>, << <<>> >>, << << <<"A","n","n">> >> >> }
\* left out, empty, one tag
OptTagLists == { <<>>, << <<>> >>, << << <<"j","o","y">> >> >> }

NextPrefs ==
    \/ Tick
    \/ \E userId \in Users : Call_getUserPreferences(userId)
    \/ \E userId \in Users, favoriteAuthors \in OptAuthorLists, favoriteTags \in OptTagLists :
          Call_updateUserPreferences(userId, favoriteAuthors, favoriteTags)

SpecPrefs == InitPlain /\ [][NextPrefs]_vars

----------------------------------------------------------------------------
(* Recommendations for u1 on a seeded store *)

Call_getSmartRecommendations(userId, limit, algorithm, includeExplanation) ==
    \E out \in {getSmartRecommendations(userId, limit, algorithm, includeExplanation)} :
        PreferencesCall("getSmartRecommendations",
                        <<userId, limit, algorithm, includeExplanation>>, out)

Algorithms == {"collaborative", "content-based", "trending", "hybrid"}

NextRecs ==
    \/ Call_seedNext
    \/ \E id \in {"1", "2"} : Call_likeQuote(id, "u1")
    \/ \E favoriteAuthors \in OptAuthorLists, favoriteTags \in OptTagLists :
          Call_updateUserPreferences("u1", favoriteAuthors, favoriteTags)
    \/ \E limit \in Limits, algorithm \in Algorithms :
          Call_getSmartRecommendations("u1", limit, algorithm, TRUE)

SpecRecs == InitPlain /\ [][NextRecs]_vars

\* likeQuote and unlikeQuote of the service and, beside them, addLike and
\* removeLike of the store, on a stored quote ("1") and on an id that is never
\* stored ("3")
StoreIds == {"1", "3"}

NextStore ==
    \/ Call_saveQuote(Q1)
    \/ \E id \in StoreIds, userId \in Users : Call_likeQuote(id, userId)
    \/ \E id \in StoreIds, userId \in Users : Call_unlikeQuote(id, userId)
    \/ \E id \in StoreIds, userId \in Users : Call_addLike(id, userId)
    \/ \E id \in StoreIds, userId \in Users : Call_removeLike(id, userId)

SpecStore == Init /\ [][NextStore]_vars

----------------------------------------------------------------------------
(* Properties *)

Stored(quoteId) == \E i \in DOMAIN quotes : quotes[i].id = quoteId
HasLike(quoteId, userId) ==
    \E i \in DOMAIN likes[quoteId] : likes[quoteId][i].userId = userId
LikeRows(quoteId, userId) ==
    {i \in DOMAIN likes[quoteId] : likes[quoteId][i].userId = userId}

\* C1: the store holds at most one Like row for each (quoteId, userId) pair,
\* whatever like and unlike calls were made on the service and on the store.
C1_AtMostOneLikePerPair ==
    \A quoteId \in QuoteIds, userId \in Users :
        Cardinality(LikeRows(quoteId, userId)) <= 1

\* a like arrived for a pair that already had its row, through the store
C1_Witness ==
    /\ ret.op = "addLike"
    /\ ret.pre.liked
    /\ Cardinality(LikeRows(ret.arg[1], ret.arg[2])) = 1

\* C2: likeQuote(q, u) when u already likes q succeeds (the route replies 200)
\* and changes neither the Like rows of any quote nor the Activity Log; q keeps
\* exactly one row for u.
C2_LikeAgainIsNoOp ==
    [][(ret'.op = "likeQuote" /\ HasLike(ret'.arg[1], ret'.arg[2]))
        => /\ ret'.err = NoError
           /\ ret'.val = <<200>>
           /\ likes' = likes
           /\ activityLog' = activityLog
           /\ Cardinality(LikeRows(ret'.arg[1], ret'.arg[2])) = 1]_vars

C2_Witness ==
    /\ ret.op = "likeQuote"
    /\ ret.pre.liked
    /\ ret.err = NoError
    /\ pubsub

\* C3: unlikeQuote(q, u) when u has no Like on q completes without error and
\* changes neither the Like rows of any quote nor the Activity Log.
C3_UnlikeWithoutLikeIsNoOp ==
    [][(ret'.op = "unlikeQuote" /\ ~HasLike(ret'.arg[1], ret'.arg[2]))
        => /\ ret'.err = NoError
           /\ likes' = likes
           /\ activityLog' = activityLog]_vars

\* C4: likeQuote(q, u) for a quote id that is not in the store fails with
\* 'Quote not found', adds no Like row and no activity event, and the like
\* route replies 404.
C4_LikeMissingQuoteFails ==
    [][(ret'.op = "likeQuote" /\ ~Stored(ret'.arg[1]))
        => /\ ret'.err = QUOTE_NOT_FOUND
           /\ ret'.val = <<404>>
           /\ likes' = likes
           /\ activityLog' = activityLog]_vars

C4_Witness ==
    /\ ret.op = "likeQuote"
    /\ ~ret.pre.stored
    /\ ret.err = QUOTE_NOT_FOUND
    /\ ret.val = <<404>>

\* C5: getQuoteById(q, u) on a stored quote returns likes = the number of Like
\* rows of q and likedByCurrentUser = whether a row (q, u) exists; after
\* likeQuote(q, u1) on a quote with no likes a read gives likes = 1, true for u1
\* and false for every other user; after unlikeQuote(q, u1) from there, likes = 0
\* and false.
C5_ReadMatchesLikeRows ==
    /\ (ret.op = "getQuoteById" /\ Stored(ret.arg[1]))
        => /\ Len(ret.val) = 1
           /\ ret.val[1].likes = Len(likes[ret.arg[1]])
           /\ ret.val[1].likedByCurrentUser = HasLike(ret.arg[1], ret.arg[2])
    /\ (ret.op = "likeQuote" /\ ret.pre.stored /\ ret.pre.count = 0)
        => /\ getQuoteById(ret.arg[1], ret.arg[2])[1].likes = 1
           /\ \A u \in OptUsers :
                getQuoteById(ret.arg[1], u)[1].likedByCurrentUser = (u = ret.arg[2])
    /\ (ret.op = "unlikeQuote" /\ ret.pre.stored /\ ret.pre.liked /\ ret.pre.count = 1)
        => /\ getQuoteById(ret.arg[1], ret.arg[2])[1].likes = 0
           /\ \A u \in OptUsers :
                ~getQuoteById(ret.arg[1], u)[1].likedByCurrentUser

\* a read by a user who has no like on a quote that another user likes
C5_Witness ==
    /\ ret.op = "getQuoteById"
    /\ ret.arg[2] \in Users
    /\ ret.val # <<>>
    /\ ret.val[1].likes = 1
    /\ ~ret.val[1].likedByCurrentUser

\* the score of stored or returned quote q against the stored quote with id target
ScoreAgainst(target, q) == calculateSimilarity(repoGetQuoteById(target)[1], QuoteOf(q))
Returned(val, quoteId) == \E i \in DOMAIN val : val[i].id = quoteId
NumOthers(target) == Cardinality({i \in DOMAIN quotes : quotes[i].id # target})

\* C6: for a stored target, getSimilarQuotes(id, limit) never returns the target,
\* returns at most limit entries (as many as limit and the other stored quotes
\* allow), in descending order of similarity to the target, and no omitted
\* other quote scores higher than a returned one.
C6_SimilarQuotesTopK ==
    (ret.op = "getSimilarQuotes" /\ Stored(ret.arg[1])) =>
        /\ ~Returned(ret.val, ret.arg[1])
        /\ Len(ret.val) <= ret.arg[2]
        /\ Len(ret.val) = Min(ret.arg[2], NumOthers(ret.arg[1]))
        /\ \A i \in DOMAIN ret.val : Stored(ret.val[i].id)
        /\ \A i, j \in DOMAIN ret.val :
              i < j => ~RatLess(ScoreAgainst(ret.arg[1], ret.val[i]),
                                ScoreAgainst(ret.arg[1], ret.val[j]))
        /\ \A k \in DOMAIN quotes :
              (quotes[k].id # ret.arg[1] /\ ~Returned(ret.val, quotes[k].id))
                  => \A i \in DOMAIN ret.val :
                        ~RatLess(ScoreAgainst(ret.arg[1], ret.val[i]),
                                 ScoreAgainst(ret.arg[1], quotes[k]))

\* the limit cuts the result: of two other quotes, the one that scores higher is kept
C6_Witness ==
    /\ ret.op = "getSimilarQuotes"
    /\ Stored(ret.arg[1])
    /\ NumOthers(ret.arg[1]) = 2
    /\ ret.arg[2] = 1
    /\ Len(ret.val) = 1
    /\ \E k \in DOMAIN quotes :
          /\ quotes[k].id # ret.arg[1]
          /\ RatLess(ScoreAgainst(ret.arg[1], quotes[k]),
                     ScoreAgainst(ret.arg[1], ret.val[1]))

\* the stored quotes that a query selects when term is what must be contained
Selected(query, term) ==
    IF query = <<>> \/ trim(query[1]) = <<>>
    THEN {i \in DOMAIN quotes : TRUE}
    ELSE {i \in DOMAIN quotes : matchesSearchTerm(quotes[i], term)}

\* val is limit of the quotes of sel, most liked first, none left out for a less liked one
MostLikedOf(val, sel, limit) ==
    /\ \A i \in DOMAIN val : \E k \in sel : quotes[k] = QuoteOf(val[i])
    /\ Len(val) = Min(limit, Cardinality(sel))
    /\ \A i, j \in DOMAIN val : i < j => val[i].id # val[j].id
    /\ \A i, j \in DOMAIN val : i < j => val[i].likes >= val[j].likes
    /\ \A i \in DOMAIN val : val[i].likes = Len(likes[val[i].id])
    /\ \A k \in sel : ~Returned(val, quotes[k].id)
          => \A i \in DOMAIN val : val[i].likes >= Len(likes[quotes[k].id])

\* C7 as stated: searchQuotes(query, limit) returns only quotes whose content,
\* author or some tag contains the query itself, case-insensitively; an empty,
\* whitespace-only or absent query selects all stored quotes; the result is
\* the limit most-liked selected quotes in descending order of like count.
C7_SearchContainsQuery ==
    ret.op = "searchQuotes" =>
        MostLikedOf(ret.val,
                    Selected(ret.arg[1], IF ret.arg[1] = <<>> THEN <<>>
                                         ELSE toLowerCase(ret.arg[1][1])),
                    ret.arg[2])

\* C7, amended: searchQuotes(query, limit) returns only quotes whose content,
\* author or some tag contains, case-insensitively, the query with the white
\* space at its two ends removed; an empty, whitespace-only or absent query
\* selects all stored quotes; the result is the limit most-liked selected
\* quotes in descending order of like count.
C7_SearchContainsTrimmedQuery ==
    ret.op = "searchQuotes" =>
        MostLikedOf(ret.val,
                    Selected(ret.arg[1], IF ret.arg[1] = <<>> THEN <<>>
                                         ELSE trim(toLowerCase(ret.arg[1][1]))),
                    ret.arg[2])

\* a term with a space at each end selects two of three stored quotes, and the
\* limit keeps the more liked one, which was stored later
C7_Witness ==
    /\ ret.op = "searchQuotes"
    /\ ret.arg[1] = << <<" ", "j", "o", "y", " ">> >>
    /\ ret.arg[2] = 1
    /\ Len(quotes) = 3
    /\ Len(ret.val) = 1
    /\ ret.val[1].id = "3"
    /\ ret.val[1].likes = 2
    /\ \E i, k \in DOMAIN quotes : i < k /\ quotes[i].id = "2" /\ quotes[k].id = "3"

\* the positions of quoteIds that resolve to a stored quote
Resolved(quoteIds) == {i \in DOMAIN quoteIds : Stored(quoteIds[i])}
NumPairs(n) == (n * (n - 1)) \div 2

\* C8: compareQuotes(ids) fails with QUOTE_COMPARISON_MIN when fewer than 2 of
\* the ids resolve to stored quotes, and nothing but the outcome changes; when
\* at least 2 resolve it succeeds with one similarity entry per unordered pair
\* of resolved quotes, carrying that pair's score.
C8_CompareNeedsTwoQuotes ==
    [][ret'.op = "compareQuotes" =>
        /\ UNCHANGED <<quotes, likes, activityLog, userPreferences, collections>>
        /\ Cardinality(Resolved(ret'.arg[1])) < 2
            => /\ ret'.err = QUOTE_COMPARISON_MIN
               /\ ret'.val = <<>>
        /\ Cardinality(Resolved(ret'.arg[1])) >= 2
            => /\ ret'.err = NoError
               /\ Len(ret'.val[1].quotes) = Cardinality(Resolved(ret'.arg[1]))
               /\ Len(ret'.val[1].similarities)
                    = NumPairs(Cardinality(Resolved(ret'.arg[1])))
               /\ \A i, j \in DOMAIN ret'.val[1].quotes :
                     i < j => \E k \in DOMAIN ret'.val[1].similarities :
                        ret'.val[1].similarities[k].score
                          = calculateSimilarity(ret'.val[1].quotes[i], ret'.val[1].quotes[j])
    ]_vars

\* three ids are supplied and exactly one of them resolves
C8_Witness ==
    /\ ret.op = "compareQuotes"
    /\ Len(ret.arg[1]) = 3
    /\ Cardinality(Resolved(ret.arg[1])) = 1
    /\ ret.err = QUOTE_COMPARISON_MIN

OwnerCheckedOps ==
    {"getCollection", "addQuoteToCollection", "removeQuoteFromCollection", "deleteCollection"}

\* the collection with this id is absent, or owned by someone other than userId
NotOwned(collectionId, userId) ==
    \/ collectionsGet(collections, collectionId) = <<>>
    \/ collectionsGet(collections, collectionId)[1].userId # userId

\* C9: getCollection, addQuoteToCollection, removeQuoteFromCollection and
\* deleteCollection, called for a collection that the requester does not own,
\* fail exactly as for a collection id that does not exist (COLLECTION_NOT_FOUND
\* and nothing else) and leave every collection as it was; getUserCollections(u)
\* returns the collections owned by u and no other.
C9_CollectionsOwnerScoped ==
    [][/\ (ret'.op \in OwnerCheckedOps /\ NotOwned(ret'.arg[1], ret'.arg[Len(ret'.arg)]))
           => /\ ret'.err = COLLECTION_NOT_FOUND
              /\ ret'.val = <<>>
              /\ collections' = collections
       /\ ret'.op = "getUserCollections"
           => /\ \A i \in DOMAIN ret'.val : ret'.val[i].userId = ret'.arg[1]
              /\ \A k \in DOMAIN collections :
                    collections[k].userId = ret'.arg[1]
                        => \E i \in DOMAIN ret'.val : ret'.val[i] = collections[k]
    ]_vars

\* deleteCollection by a user who is not the owner of a collection that holds a quote
C9_Witness ==
    /\ ret.op = "deleteCollection"
    /\ ret.err = COLLECTION_NOT_FOUND
    /\ collectionsGet(collections, ret.arg[1]) # <<>>
    /\ collectionsGet(collections, ret.arg[1])[1].userId # ret.arg[2]
    /\ collectionsGet(collections, ret.arg[1])[1].quotes # <<>>

\* C10: getRandomQuote fails only with ExternalApiFailed, and only when the
\* store was empty and the fetch failed; with a failed fetch and a non-empty
\* store it returns a stored quote; with an empty store and a successful fetch it
\* fetches once, stores the fetched quote and returns it with likes = 0 and
\* likedByCurrentUser = false.
C10_RandomQuoteFallback ==
    ret.op = "getRandomQuote" =>
        /\ ret.err # NoError
            => /\ ret.err = EXTERNAL_API_FAILED
               /\ ret.pre.storeSize = 0
               /\ ret.arg.fetchCalls = 1
               /\ ret.arg.fetched = <<>>
        /\ (ret.arg.fetched = <<>> /\ ret.pre.storeSize > 0)
            => /\ ret.err = NoError
               /\ Len(ret.val) = 1
               /\ \E i \in DOMAIN quotes : quotes[i] = QuoteOf(ret.val[1])
        /\ (ret.arg.fetched # <<>> /\ ret.pre.storeSize = 0)
            => /\ ret.err = NoError
               /\ ret.arg.fetchCalls = 1
               /\ quotes = ret.arg.fetched
               /\ Len(ret.val) = 1
               /\ QuoteOf(ret.val[1]) = ret.arg.fetched[1]
               /\ ret.val[1].likes = 0
               /\ ~ret.val[1].likedByCurrentUser

\* the fetch was attempted and failed while the store held a quote
C10_Witness ==
    /\ ret.op = "getRandomQuote"
    /\ ret.arg.fetchCalls = 1
    /\ ret.arg.fetched = <<>>
    /\ ret.pre.storeSize > 0
    /\ ret.err = NoError

\* the stored quotes with strictly more likes than the quote with id quoteId
MoreLiked(quoteId) ==
    {i \in DOMAIN quotes : Len(likes[quotes[i].id]) > Len(likes[quoteId])}

\* C11: a getRandomQuote(userId) that succeeds returns the quote chosen by the
\* store / external-fetch step or a quote than which at most 4 stored quotes
\* have strictly more likes; without a userId it returns the chosen quote; the
\* returned quote is in the store when the call returns.
C11_RandomQuoteIsChosenOrTop5 ==
    (ret.op = "getRandomQuote" /\ ret.err = NoError) =>
        /\ Len(ret.val) = 1
        /\ \/ <<QuoteOf(ret.val[1])>> = ret.arg.chosen
           \/ /\ ret.arg.userId # Undefined
              /\ Cardinality(MoreLiked(ret.val[1].id)) <= TOP_QUOTES - 1
        /\ ret.arg.userId = Undefined => <<QuoteOf(ret.val[1])>> = ret.arg.chosen
        /\ \E i \in DOMAIN quotes : quotes[i] = QuoteOf(ret.val[1])

\* the prioritized quote replaces the chosen one while a stored quote is outside the top 5
C11_Witness ==
    /\ ret.op = "getRandomQuote"
    /\ ret.err = NoError
    /\ ret.arg.userId # Undefined
    /\ <<QuoteOf(ret.val[1])>> # ret.arg.chosen
    /\ \E i \in DOMAIN quotes : Cardinality(MoreLiked(quotes[i].id)) = TOP_QUOTES

\* C12: the popularityScore reported for a quote is min(likeCount / 10, 1): it
\* lies in [0, 1], is no less than the score of any smaller like count, and is
\* exactly 1 for every like count of 10 or more.  Scores are in tenths.
C12_PopularityScoreSaturates ==
    (ret.op = "getQuoteById" /\ ret.val # <<>>) =>
        /\ ret.val[1].likes = Len(likes[ret.arg[1]])
        /\ ret.val[1].popularityScore
             = IF ret.val[1].likes >= 10 THEN 10 ELSE ret.val[1].likes
        /\ ret.val[1].popularityScore \in 0..10
        /\ \A m \in 0..ret.val[1].likes :
              calculatePopularityScore(m) <= ret.val[1].popularityScore

\* a read of a quote with more than 10 likes
C12_Witness ==
    /\ ret.op = "getQuoteById"
    /\ ret.val # <<>>
    /\ ret.val[1].likes > 10
    /\ ret.val[1].popularityScore = 10

\* the likes made on quoteId within the last 24 hours; no like is withdrawn in
\* the runs of SpecScores, so every like made is a Like row
LikesMadeInLast24h(quoteId) ==
    Cardinality({i \in DOMAIN likes[quoteId] :
                    likes[quoteId][i].timestamp > now - 24})

\* C13: the trendingScore reported for a quote is min(n / 5, 1) for n the
\* number of likes made on it through likeQuote within the last 24 hours: 1
\* after 5 such likes, 0 when every like is older.  Scores are in fifths.
C13_TrendingScoreCountsRecentLikes ==
    (ret.op = "getQuoteById" /\ ret.val # <<>>) =>
        ret.val[1].trendingScore
          = IF LikesMadeInLast24h(ret.arg[1]) >= 5 THEN 5
            ELSE LikesMadeInLast24h(ret.arg[1])

\* C14: for two quotes with well-formed fields, repeated words or tags, empty
\* tag lists and contents without a word longer than 2 characters included,
\* 0 <= similarity <= 1; two quotes with the same author and the same single
\* tag score at least 0.3 + 0.2.
C14_SimilarityBounded ==
    ret.op = "calculateSimilarity" =>
        /\ ret.val[1].den > 0
        /\ 0 <= ret.val[1].num
        /\ ret.val[1].num <= ret.val[1].den
        /\ (/\ ret.arg[1].author = ret.arg[2].author
            /\ Len(ret.arg[1].tags) = 1
            /\ ret.arg[1].tags = ret.arg[2].tags)
             => ~RatLess(ret.val[1], Rat(AUTHOR_MATCH_WEIGHT + TAG_SIMILARITY_WEIGHT, 10))

\* a quote with a repeated tag and a repeated word against one with a single
\* tag and the same words scores exactly 1
C14_Witness ==
    /\ ret.op = "calculateSimilarity"
    /\ Len(ret.arg[1].tags) = 2
    /\ ret.arg[1].tags[1] = ret.arg[1].tags[2]
    /\ Len(ret.arg[2].tags) = 1
    /\ ret.arg[1].content = <<"j","o","y"," ","j","o","y">>
    /\ ret.val[1].num = ret.val[1].den

\* the collection with id collectionId holds a quote with id quoteId
Holds(collectionId, quoteId) ==
    /\ collectionsGet(collections, collectionId) # <<>>
    /\ \E i \in DOMAIN collectionsGet(collections, collectionId)[1].quotes :
          collectionsGet(collections, collectionId)[1].quotes[i].id = quoteId

\* C15: after every call no collection holds a quote id twice;
\* addQuoteToCollection by the owner for a quote the collection already holds
\* succeeds and leaves the collection (its quotes and updatedAt) as it was, and
\* for a quote id that is not stored fails with QUOTE_NOT_FOUND and leaves the
\* collection as it was.
C15_CollectionHasNoDuplicates ==
    [][/\ \A k \in DOMAIN collections' :
            \A i, j \in DOMAIN collections'[k].quotes :
                i < j => collections'[k].quotes[i].id # collections'[k].quotes[j].id
       /\ (/\ ret'.op = "addQuoteToCollection"
           /\ ~NotOwned(ret'.arg[1], ret'.arg[3])
           /\ Holds(ret'.arg[1], ret'.arg[2]))
             => /\ ret'.err = NoError
                /\ collections' = collections
       /\ (/\ ret'.op = "addQuoteToCollection"
           /\ ~NotOwned(ret'.arg[1], ret'.arg[3])
           /\ ~Stored(ret'.arg[2]))
             => /\ ret'.err = QUOTE_NOT_FOUND
                /\ ret'.val = <<>>
                /\ collections' = collections
    ]_vars

\* the owner added a quote that the collection has held since an earlier hour
C15_Witness ==
    /\ ret.op = "addQuoteToCollection"
    /\ ret.err = NoError
    /\ Holds(ret.arg[1], ret.arg[2])
    /\ collectionsGet(collections, ret.arg[1])[1].updatedAt < now

\* the preferences held for userId in ps, or the defaults a first access creates
HeldOrDefault(ps, userId) ==
    IF preferencesGet(ps, userId) # <<>> THEN preferencesGet(ps, userId)[1]
    ELSE [userId |-> userId, favoriteAuthors |-> <<>>, favoriteTags |-> <<>>,
          likedQuotes |-> <<>>, createdAt |-> now]

\* C17: getUserPreferences(u) for a user without preferences creates and
\* returns a record with empty favoriteAuthors, favoriteTags and likedQuotes;
\* updateUserPreferences(u, authors, tags) replaces a list exactly when it is
\* supplied, an empty list included, and leaves the other list, createdAt and
\* the preferences of every other user as they were.
C17_PreferencesUpsert ==
    [][/\ (ret'.op = "getUserPreferences" /\ preferencesGet(userPreferences, ret'.arg[1]) = <<>>)
           => /\ ret'.val = <<[userId |-> ret'.arg[1], favoriteAuthors |-> <<>>,
                               favoriteTags |-> <<>>, likedQuotes |-> <<>>,
                               createdAt |-> now]>>
              /\ preferencesGet(userPreferences', ret'.arg[1]) = ret'.val
       /\ ret'.op = "updateUserPreferences"
           => /\ preferencesGet(userPreferences', ret'.arg[1]) = ret'.val
              /\ ret'.val[1].favoriteAuthors
                   = IF ret'.arg[2] # <<>> THEN ret'.arg[2][1]
                     ELSE HeldOrDefault(userPreferences, ret'.arg[1]).favoriteAuthors
              /\ ret'.val[1].favoriteTags
                   = IF ret'.arg[3] # <<>> THEN ret'.arg[3][1]
                     ELSE HeldOrDefault(userPreferences, ret'.arg[1]).favoriteTags
              /\ ret'.val[1].createdAt
                   = HeldOrDefault(userPreferences, ret'.arg[1]).createdAt
              /\ ret'.val[1].likedQuotes
                   = HeldOrDefault(userPreferences, ret'.arg[1]).likedQuotes
       /\ ret'.op \in {"getUserPreferences", "updateUserPreferences"}
           => \A u \in Users \ {ret'.arg[1]} :
                 preferencesGet(userPreferences', u) = preferencesGet(userPreferences, u)
    ]_vars

\* an update that supplies an empty author list and no tag list, for a user
\* whose preferences were created earlier and hold an author and a tag, while
\* another user has preferences too
C17_Witness ==
    /\ ret.op = "updateUserPreferences"
    /\ ret.arg[2] = << <<>> >>
    /\ ret.arg[3] = <<>>
    /\ ret.val[1].favoriteAuthors = <<>>
    /\ ret.val[1].favoriteTags # <<>>
    /\ ret.val[1].createdAt < now
    /\ Len(userPreferences) = 2

\* the entry of recs for the quote with id quoteId, as a sequence of at most one
EntryFor(recs, quoteId) ==
    IF \E i \in DOMAIN recs : recs[i].quote.id = quoteId
    THEN <<recs[CHOOSE i \in DOMAIN recs : recs[i].quote.id = quoteId]>>
    ELSE <<>>

\* what the collaborative and the content-based strategy give the hybrid merge for limit
HybridCollaborative(userId, limit) ==
    getCollaborativeRecommendations(userPreferences, userId, quotes, ceilHalf(limit))
HybridContentBased(userId, limit) ==
    getContentBasedRecommendations(getUserPreferences(userPreferences, userId).val[1],
                                   quotes, getUserLikedQuotes(userId), ceilHalf(limit))

\* C16: for the collaborative, content-based and hybrid algorithms (hybrid is
\* also what any other name but trending selects) the list that
\* getSmartRecommendations(userId, limit) returns holds no quote the user
\* likes, holds no quote id twice, is in descending order of score and has at
\* most limit entries; in the hybrid list a quote that both strategies found
\* carries the collaborative score.
C16_RecommendationsWellFormed ==
    (ret.op = "getSmartRecommendations" /\ ret.arg[3] # "trending") =>
        /\ \A i \in DOMAIN ret.val[1].recommendations :
              ~HasLike(ret.val[1].recommendations[i].quote.id, ret.arg[1])
        /\ \A i, j \in DOMAIN ret.val[1].recommendations :
              i < j => /\ ret.val[1].recommendations[i].quote.id
                            # ret.val[1].recommendations[j].quote.id
                       /\ ~RatLess(ret.val[1].recommendations[i].score,
                                   ret.val[1].recommendations[j].score)
        /\ Len(ret.val[1].recommendations) <= ret.arg[2]
        /\ ret.arg[3] \notin {"collaborative", "content-based"}
             => \A i \in DOMAIN ret.val[1].recommendations :
                   \A c \in Range(HybridCollaborative(ret.arg[1], ret.arg[2])) :
                       c.quote.id = ret.val[1].recommendations[i].quote.id
                           => ret.val[1].recommendations[i].score = c.key

\* a hybrid list of 3 for a user who likes a quote, with a quote that the two
\* strategies found and scored differently
C16_Witness ==
    /\ ret.op = "getSmartRecommendations"
    /\ ret.arg[3] = "hybrid"
    /\ Len(ret.val[1].recommendations) = 3
    /\ \E q \in QuoteIds : HasLike(q, ret.arg[1])
    /\ \E c \in Range(HybridCollaborative(ret.arg[1], ret.arg[2])),
          d \in Range(HybridContentBased(ret.arg[1], ret.arg[2])) :
            /\ c.quote.id = d.quote.id
            /\ RatLess(c.key, d.key)
            /\ EntryFor(ret.val[1].recommendations, c.quote.id) # <<>>

\* C18: once a quote with id X is stored, no operation of the service changes
\* the content, author or tags held for X or removes X, a getRandomQuote whose
\* fetch returns a quote with a stored id included.  (saveQuote is the seeding
\* of the tests, not an operation of the service.)
C18_StoredQuotesNeverChange ==
    [][ret'.op # "saveQuote" =>
        \A i \in DOMAIN quotes :
            \E j \in DOMAIN quotes' :
                /\ quotes'[j].id = quotes[i].id
                /\ quotes'[j].content = quotes[i].content
                /\ quotes'[j].author = quotes[i].author
                /\ quotes'[j].tags = quotes[i].tags
    ]_vars

----------------------------------------------------------------------------
(* AdvancedQuoteServiceImpl: getAnalytics, getAnalyticsDashboard,          *)
(* getPopularAuthors and discoverPatterns. A number of the code is a       *)
(* record: kind "finite" with the exact quotient num / den, or one of the  *)
(* kinds "NaN", "Infinity" and "-Infinity" of a floating-point number.     *)

MAX_TOP_TAGS == 10
RangeError == "RangeError: Invalid time value"

POSITIVE_WORDS ==
    << <<"l","o","v","e">>, <<"h","a","p","p","y">>, <<"j","o","y">>,
       <<"s","u","c","c","e","s","s">>, <<"b","e","a","u","t","i","f","u","l">>,
       <<"a","m","a","z","i","n","g">>, <<"w","o","n","d","e","r","f","u","l">>,
       <<"g","r","e","a","t">>, <<"e","x","c","e","l","l","e","n","t">>,
       <<"f","a","n","t","a","s","t","i","c">> >>

NEGATIVE_WORDS ==
    << <<"h","a","t","e">>, <<"s","a","d">>, <<"p","a","i","n">>,
       <<"f","a","i","l","u","r","e">>, <<"u","g","l","y">>,
       <<"t","e","r","r","i","b","l","e">>, <<"a","w","f","u","l">>,
       <<"h","o","r","r","i","b","l","e">>, <<"b","a","d">>,
       <<"w","o","r","s","t">> >>

NaN == [kind |-> "NaN", num |-> 0, den |-> 1]
PlusInfinity == [kind |-> "Infinity", num |-> 0, den |-> 1]
MinusInfinity == [kind |-> "-Infinity", num |-> 0, den |-> 1]
Finite(n, d) == [kind |-> "finite", num |-> Rat(n, d).num, den |-> Rat(n, d).den]

\* n / d of two counts n >= 0 and d >= 0
Divide(n, d) ==
    IF d # 0 THEN Finite(n, d)
    ELSE IF n = 0 THEN NaN ELSE PlusInfinity

\* Array.prototype.reverse on a copy
Reverse(s) == [i \in DOMAIN s |-> s[Len(s) + 1 - i]]

\* Array.prototype.slice(-n); slice(-0) is slice(0), the whole array
SliceLast(s, n) == IF n = 0 THEN s ELSE SubSeq(s, Max(1, Len(s) - n + 1), Len(s))

RECURSIVE getTotalLikesOf(_)
getTotalLikesOf(qs) ==
    IF qs = <<>> THEN 0
    ELSE Len(getLikesByQuoteId(likes, Head(qs).id)) + getTotalLikesOf(Tail(qs))

getTotalLikes == getTotalLikesOf(getAllQuotes)

\* the first quote no other quote has more likes than; null on an empty store
getMostLikedQuote ==
    LET allQuotes == getAllQuotes
        count(i) == Len(getLikesByQuoteId(likes, allQuotes[i].id))
    IN IF allQuotes = <<>> THEN <<>>
       ELSE LET mostLiked == CHOOSE i \in DOMAIN allQuotes :
                    /\ \A j \in DOMAIN allQuotes : count(j) <= count(i)
                    /\ \A j \in 1..(i - 1) : count(j) < count(i)
            IN <<enrichQuoteWithStats(likes, activityLog, allQuotes[mostLiked], Undefined)>>

RECURSIVE authorStatsOf(_, _)
\* authorStats: the entries in the order the authors were first set
authorStatsOf(qs, stats) ==
    IF qs = <<>> THEN stats
    ELSE LET quote == Head(qs)
             n == Len(getLikesByQuoteId(likes, quote.id))
         IN authorStatsOf(Tail(qs),
              IF \E i \in DOMAIN stats : stats[i].author = quote.author
              THEN [i \in DOMAIN stats |->
                       IF stats[i].author = quote.author
                       THEN [author |-> quote.author,
                             quoteCount |-> stats[i].quoteCount + 1,
                             totalLikes |-> stats[i].totalLikes + n]
                       ELSE stats[i]]
              ELSE Append(stats, [author |-> quote.author, quoteCount |-> 1,
                                  totalLikes |-> n]))

\* key is totalLikes, which the sort compares
getPopularAuthors(limit) ==
    LET authorStats == authorStatsOf(getAllQuotes, <<>>) IN
    Slice(StableSortDesc([i \in DOMAIN authorStats |->
        [author |-> authorStats[i].author,
         quoteCount |-> authorStats[i].quoteCount,
         totalLikes |-> authorStats[i].totalLikes,
         averageLikes |-> IF authorStats[i].quoteCount > 0
                          THEN Finite(authorStats[i].totalLikes, authorStats[i].quoteCount)
                          ELSE Finite(0, 1),
         key |-> Rat(authorStats[i].totalLikes, 1)]]), limit)

getAnalytics ==
    [totalQuotes |-> Len(getAllQuotes),
     totalLikes |-> getTotalLikes,
     mostLikedQuote |-> getMostLikedQuote,
     trendingQuotes |-> getTrendingQuotes(5, "24h"),
     popularAuthors |-> getPopularAuthors(5),
     recentActivity |-> Reverse(SliceLast(activityLog, 10))]

\* The 24 intervals of the range, with times in 24ths of an hour so that the
\* interval timeRangeMs / 24 is whole. startTime.toISOString() throws a
\* RangeError when cutoffTime is an Invalid Date.
generateLikesOverTime(timeRange) ==
    LET cutoffTime == cutoffTimeOf(timeRange)
        interval == getTimeRangeMs(timeRange)
    IN IF cutoffTime = <<>> THEN [err |-> RangeError, val |-> <<>>]
       ELSE [err |-> NoError,
             val |-> [k \in 1..24 |->
                LET startTime == cutoffTime[1] * 24 + (k - 1) * interval
                    endTime == cutoffTime[1] * 24 + k * interval
                IN [timestamp |-> startTime,
                    count |-> Cardinality({e \in DOMAIN activityLog :
                        /\ activityLog[e].type = QUOTE_LIKED
                        /\ activityLog[e].timestamp * 24 >= startTime
                        /\ activityLog[e].timestamp * 24 < endTime})]]]

RECURSIVE addTags(_, _, _)
\* the inner loop of getTopTags over the tags of a quote with n likes
addTags(tags, n, counts) ==
    IF tags = <<>> THEN counts
    ELSE addTags(Tail(tags), n,
           IF \E i \in DOMAIN counts : counts[i].tag = Head(tags)
           THEN [i \in DOMAIN counts |->
                    IF counts[i].tag = Head(tags)
                    THEN [tag |-> Head(tags), count |-> counts[i].count + 1,
                          totalLikes |-> counts[i].totalLikes + n]
                    ELSE counts[i]]
           ELSE Append(counts, [tag |-> Head(tags), count |-> 1, totalLikes |-> n]))

RECURSIVE tagCountsOf(_, _)
tagCountsOf(qs, counts) ==
    IF qs = <<>> THEN counts
    ELSE tagCountsOf(Tail(qs),
           addTags(Head(qs).tags, Len(getLikesByQuoteId(likes, Head(qs).id)), counts))

\* key is count, which the sort compares
getTopTags ==
    LET tagCounts == tagCountsOf(getAllQuotes, <<>>) IN
    Slice(StableSortDesc([i \in DOMAIN tagCounts |->
        [tag |-> tagCounts[i].tag,
         count |-> tagCounts[i].count,
         averageLikes |-> IF tagCounts[i].count > 0
                          THEN Finite(tagCounts[i].totalLikes, tagCounts[i].count)
                          ELSE Finite(0, 1),
         key |-> Rat(tagCounts[i].count, 1)]]), MAX_TOP_TAGS)

getAnalyticsDashboard(timeRange) ==
    LET analytics == getAnalytics
        cutoffTime == cutoffTimeOf(timeRange)
        recentActivity == Reverse(SliceLast(
            Filter(activityLog, {e \in Range(activityLog) :
                                    atOrAfter(e.timestamp, cutoffTime)}), 20))
        likesOverTime == generateLikesOverTime(timeRange)
    IN IF likesOverTime.err # NoError THEN [err |-> likesOverTime.err, val |-> <<>>]
       ELSE [err |-> NoError,
             val |-> <<[overview |->
                          [totalQuotes |-> analytics.totalQuotes,
                           totalLikes |-> analytics.totalLikes,
                           totalUsers |-> Len(userPreferences),
                           averageLikesPerQuote |->
                               IF analytics.totalQuotes > 0
                               THEN Finite(analytics.totalLikes, analytics.totalQuotes)
                               ELSE Finite(0, 1),
                           quotesAddedToday |-> Cardinality({i \in DOMAIN recentActivity :
                               recentActivity[i].type = NEW_QUOTE_ADDED})],
                        trending |->
                          [mostLikedQuotes |-> analytics.trendingQuotes,
                           popularAuthors |-> analytics.popularAuthors],
                        engagement |->
                          [likesOverTime |-> likesOverTime.val,
                           topTags |-> getTopTags]]>>]

\* new Date(timestamp).getHours(), with hour 0 of the clock at midnight
getHours(timestamp) == timestamp % 24

\* hourlyCounts[h + 1] counts the events of hour h; peakHour is the first
\* hour that holds the greatest count
getHourlyEngagement(events) ==
    LET hourlyCounts == [h \in 1..24 |->
            Cardinality({i \in DOMAIN events : getHours(events[i].timestamp) = h - 1})]
        peak == CHOOSE h \in 1..24 :
                    /\ \A g \in 1..24 : hourlyCounts[g] <= hourlyCounts[h]
                    /\ \A g \in 1..(h - 1) : hourlyCounts[g] < hourlyCounts[h]
    IN [hourlyCounts |-> hourlyCounts, peakHour |-> peak - 1, totalEvents |-> Len(events)]

\* words.filter(word => content.includes(word)).length
matchCount(words, content) ==
    Cardinality({i \in DOMAIN words : includes(content, words[i])})

analyzeSentiment(qs) ==
    LET positive == {i \in DOMAIN qs :
            matchCount(POSITIVE_WORDS, toLowerCase(qs[i].content))
                > matchCount(NEGATIVE_WORDS, toLowerCase(qs[i].content))}
        negative == {i \in DOMAIN qs :
            matchCount(NEGATIVE_WORDS, toLowerCase(qs[i].content))
                > matchCount(POSITIVE_WORDS, toLowerCase(qs[i].content))}
        total == Len(qs)
    IN [positiveCount |-> Cardinality(positive),
        negativeCount |-> Cardinality(negative),
        neutralCount |-> total - Cardinality(positive) - Cardinality(negative),
        positivePercentage |-> IF total > 0 THEN Finite(Cardinality(positive) * 100, total)
                               ELSE Finite(0, 1),
        negativePercentage |-> IF total > 0 THEN Finite(Cardinality(negative) * 100, total)
                               ELSE Finite(0, 1)]

\* q.length || q.content.length
lengthOf(q) == IF q.length # 0 THEN q.length ELSE Len(q.content)

RECURSIVE sumLengths(_)
\* lengths.reduce((sum, len) => sum + len, 0)
sumLengths(qs) == IF qs = <<>> THEN 0 ELSE lengthOf(Head(qs)) + sumLengths(Tail(qs))

\* A Quote of the repository has no likes, so (q as any).likes > 0 holds of
\* no quote and optimalLength is averageLength. Math.min() of no argument is
\* Infinity and Math.max() of none is -Infinity.
analyzeQuoteLengths(qs) ==
    LET averageLength == Divide(sumLengths(qs), Len(qs))
        likedQuotes == <<>>
        optimalLength == IF Len(likedQuotes) > 0
                         THEN Divide(sumLengths(likedQuotes), Len(likedQuotes))
                         ELSE averageLength
    IN [averageLength |-> averageLength,
        optimalLength |-> optimalLength,
        minLength |-> IF qs = <<>> THEN PlusInfinity
                      ELSE Finite(CHOOSE n \in {lengthOf(qs[i]) : i \in DOMAIN qs} :
                               \A i \in DOMAIN qs : n <= lengthOf(qs[i]), 1),
        maxLength |-> IF qs = <<>> THEN MinusInfinity
                      ELSE Finite(CHOOSE n \in {lengthOf(qs[i]) : i \in DOMAIN qs} :
                               \A i \in DOMAIN qs : n >= lengthOf(qs[i]), 1),
        totalQuotes |-> Len(qs)]

PatternTypes == {"engagement", "sentiment", "length", "author"}

generateRecommendations(patternType) ==
    IF patternType = "engagement"
    THEN <<"Consider posting new quotes during peak engagement hours",
           "Focus on quotes that generate discussion and interaction">>
    ELSE IF patternType = "sentiment"
    THEN <<"Balance positive and inspirational content with thought-provoking quotes",
           "Consider the emotional impact of quote selection">>
    ELSE IF patternType = "length"
    THEN <<"Optimize quote length for better engagement",
           "Test different quote lengths to find the sweet spot">>
    ELSE <<>>

\* confidence is in hundredths; of an insight the model keeps the title, the
\* confidence and the data, which the description repeats
discoverPatterns(patternType, timeRange) ==
    LET cutoffTime == cutoffTimeOf(timeRange)
        insights ==
            IF patternType = "engagement"
            THEN <<[title |-> "Peak Engagement Hours", confidence |-> 85,
                    data |-> getHourlyEngagement(FilterRecentLikes(activityLog, cutoffTime))]>>
            ELSE IF patternType = "sentiment"
            THEN <<[title |-> "Content Sentiment Trends", confidence |-> 72,
                    data |-> analyzeSentiment(getAllQuotes)]>>
            ELSE IF patternType = "length"
            THEN <<[title |-> "Optimal Quote Length", confidence |-> 78,
                    data |-> analyzeQuoteLengths(getAllQuotes)]>>
            ELSE <<>>
    IN [patternType |-> patternType,
        insights |-> insights,
        recommendations |-> generateRecommendations(patternType),
        generatedAt |-> now]

----------------------------------------------------------------------------
(* The analytics of a store that is empty at first *)

\* a query that changes no state; pre tells whether the store held no quote
\* and the log no event when it began
AnalyticsCall(op, arg, err, val) ==
    /\ ret' = [op |-> op, arg |-> arg,
               pre |-> [empty |-> quotes = <<>> /\ activityLog = <<>>],
               err |-> err, val |-> val]
    /\ UNCHANGED <<quotes, likes, activityLog, userPreferences, collections, pubsub, requests, now>>

Call_getAnalytics == AnalyticsCall("getAnalytics", <<>>, NoError, <<getAnalytics>>)

Call_getAnalyticsDashboard(timeRange) ==
    \E out \in {getAnalyticsDashboard(timeRange)} :
        AnalyticsCall("getAnalyticsDashboard", <<timeRange>>, out.err, out.val)

Call_getTrendingQuotes(limit, timeRange) ==
    AnalyticsCall("getTrendingQuotes", <<limit, timeRange>>, NoError,
                  getTrendingQuotes(limit, timeRange))

Call_getPopularAuthors(limit) ==
    AnalyticsCall("getPopularAuthors", <<limit>>, NoError, getPopularAuthors(limit))

Call_discoverPatterns(patternType, timeRange) ==
    AnalyticsCall("discoverPatterns", <<patternType, timeRange>>, NoError,
                  <<discoverPatterns(patternType, timeRange)>>)

TimeRanges == {"24h", "7d", "all"}

NextAnalytics ==
    \/ Call_seedNext
    \/ Call_likeNext
    \/ Advance(12)
    \/ Call_getAnalytics
    \/ \E timeRange \in TimeRanges : Call_getAnalyticsDashboard(timeRange)
    \/ \E timeRange \in TimeRanges : Call_getTrendingQuotes(MaxLimit, timeRange)
    \/ Call_getPopularAuthors(MaxLimit)
    \/ \E patternType \in PatternTypes, timeRange \in TimeRanges :
           Call_discoverPatterns(patternType, timeRange)

SpecAnalytics == Init /\ [][NextAnalytics]_vars

Zero == Finite(0, 1)

AllZero(counts) == \A i \in DOMAIN counts : counts[i] = 0

\* C19: on an empty quote store and an empty Activity Log, getAnalytics,
\* getAnalyticsDashboard, getTrendingQuotes, getPopularAuthors and
\* discoverPatterns complete without error, every count or average they
\* report is zero (an interval or hour of a series counts zero) and every
\* list of quotes, authors, tags or events is empty.
C19_AnalyticsOnEmptyInput ==
    (ret.op \in {"getAnalytics", "getAnalyticsDashboard", "getTrendingQuotes",
                 "getPopularAuthors", "discoverPatterns"} /\ ret.pre.empty) =>
        /\ ret.err = NoError
        /\ ret.op = "getAnalytics" =>
              /\ ret.val[1].totalQuotes = 0
              /\ ret.val[1].totalLikes = 0
              /\ ret.val[1].mostLikedQuote = <<>>
              /\ ret.val[1].trendingQuotes = <<>>
              /\ ret.val[1].popularAuthors = <<>>
              /\ ret.val[1].recentActivity = <<>>
        /\ ret.op = "getAnalyticsDashboard" =>
              /\ ret.val[1].overview.totalQuotes = 0
              /\ ret.val[1].overview.totalLikes = 0
              /\ ret.val[1].overview.averageLikesPerQuote = Zero
              /\ ret.val[1].overview.quotesAddedToday = 0
              /\ ret.val[1].trending.mostLikedQuotes = <<>>
              /\ ret.val[1].trending.popularAuthors = <<>>
              /\ \A k \in DOMAIN ret.val[1].engagement.likesOverTime :
                     ret.val[1].engagement.likesOverTime[k].count = 0
              /\ ret.val[1].engagement.topTags = <<>>
        /\ ret.op \in {"getTrendingQuotes", "getPopularAuthors"} => ret.val = <<>>
        /\ (ret.op = "discoverPatterns" /\ ret.arg[1] = "engagement") =>
              /\ AllZero(ret.val[1].insights[1].data.hourlyCounts)
              /\ ret.val[1].insights[1].data.totalEvents = 0
        /\ (ret.op = "discoverPatterns" /\ ret.arg[1] = "sentiment") =>
              /\ ret.val[1].insights[1].data.positiveCount = 0
              /\ ret.val[1].insights[1].data.negativeCount = 0
              /\ ret.val[1].insights[1].data.neutralCount = 0
              /\ ret.val[1].insights[1].data.positivePercentage = Zero
              /\ ret.val[1].insights[1].data.negativePercentage = Zero
        /\ (ret.op = "discoverPatterns" /\ ret.arg[1] = "length") =>
              /\ ret.val[1].insights[1].data.averageLength = Zero
              /\ ret.val[1].insights[1].data.optimalLength = Zero
              /\ ret.val[1].insights[1].data.minLength = Zero
              /\ ret.val[1].insights[1].data.maxLength = Zero
              /\ ret.val[1].insights[1].data.totalQuotes = 0

----------------------------------------------------------------------------
(* AdvancedQuoteServiceImpl: getQuoteHistory, getLiveFeed, shareQuote and  *)
(* reportQuote. A method that reads the log returns, beside its result,    *)
(* the log as its array operations leave it: filter and slice return a new *)
(* array, sort and reverse work on the array they are called on.           *)

QUOTE_SHARED == "QUOTE_SHARED"
QUOTE_REPORTED == "QUOTE_REPORTED"

\* sort((a, b) => new Date(b.timestamp).getTime() - new Date(a.timestamp).getTime())
sortByTimestampDesc(events) ==
    LET sorted == StableSortDesc([i \in DOMAIN events |->
                      [event |-> events[i], key |-> Rat(events[i].timestamp, 1)]])
    IN [i \in DOMAIN sorted |-> sorted[i].event]

RECURSIVE distinctInOrder(_, _)
\* [...new Set(ids)]
distinctInOrder(ids, seen) ==
    IF ids = <<>> THEN <<>>
    ELSE IF Head(ids) \in seen THEN distinctInOrder(Tail(ids), seen)
         ELSE <<Head(ids)>> \o distinctInOrder(Tail(ids), seen \cup {Head(ids)})

\* the quotes of the events userActivity, each once
historyQuotes(userActivity) ==
    LET quoteIds == distinctInOrder([i \in DOMAIN userActivity |-> userActivity[i].quoteId], {})
    IN FlattenOpt([i \in DOMAIN quoteIds |-> getQuoteById(quoteIds[i], Undefined)])

getQuoteHistory_sortsLog(userId, limit) ==
    LET sorted == sortByTimestampDesc(activityLog)
        userActivity == Slice(Filter(sorted, {e \in Range(sorted) : e.userId = userId}), limit)
    IN [activityLog |-> sorted, val |-> historyQuotes(userActivity)]

getQuoteHistory(userId, limit) ==
    LET userActivity == Slice(sortByTimestampDesc(
            Filter(activityLog, {e \in Range(activityLog) : e.userId = userId})), limit)
    IN [activityLog |-> activityLog, val |-> historyQuotes(userActivity)]

\* the latest event of the quote, or null
getQuoteActivity(quoteId) ==
    LET activities == Reverse(SliceLast(
            Filter(activityLog, {e \in Range(activityLog) : e.quoteId = quoteId}), 5))
    IN IF Len(activities) > 0 THEN <<activities[1]>> ELSE <<>>

\* 0.5 and, with stored preferences of the user, the weights of a favourite
\* author and of the share of favourite tags; at most 1
calculateRelevanceScore(ps, quote, userId) ==
    IF userId = Undefined \/ preferencesGet(ps, userId) = <<>> THEN Rat(5, 10)
    ELSE LET preferences == preferencesGet(ps, userId)[1]
             authorPart == IF \E j \in DOMAIN preferences.favoriteAuthors :
                                  preferences.favoriteAuthors[j] = quote.author
                           THEN PREFERENCE_AUTHOR_WEIGHT ELSE 0
             matchingTags == Cardinality({i \in DOMAIN quote.tags :
                                 \E j \in DOMAIN preferences.favoriteTags :
                                     preferences.favoriteTags[j] = quote.tags[i]})
             score == RatAdd(Rat(5 + authorPart, 10),
                             Rat(matchingTags * PREFERENCE_TAG_WEIGHT,
                                 Max(Len(quote.tags), 1) * 10))
         IN IF RatLess(Rat(1, 1), score) THEN Rat(1, 1) ELSE score

FeedTypes == {"trending", "recent", "popular", "personalized"}

\* recommendations.recommendations.map(rec => rec.quote), with the
\* preferences getSmartRecommendations leaves
personalizedQuotes(out) ==
    [userPreferences |-> out.userPreferences,
     quotes |-> [i \in DOMAIN out.val[1].recommendations |->
                    out.val[1].recommendations[i].quote]]

\* sorted.map(({quote}) => quote)
quotesOf(sorted) == [i \in DOMAIN sorted |-> sorted[i].quote]

\* the quotes of the feed and the preferences the personalized feed leaves
feedQuotes(userId, limit, feedType) ==
    IF feedType = "trending"
    THEN [userPreferences |-> userPreferences, quotes |-> getTrendingQuotes(limit, "24h")]
    ELSE IF feedType = "recent"
    THEN [userPreferences |-> userPreferences, quotes |-> SliceLast(getAllQuotes, limit)]
    ELSE IF feedType = "popular"
    THEN [userPreferences |-> userPreferences,
          quotes |-> quotesOf(Slice(quotesWithLikesSorted(getAllQuotes, likes), limit))]
    ELSE IF userId # Undefined
    THEN personalizedQuotes(getSmartRecommendations(userId, limit, "hybrid", FALSE))
    ELSE [userPreferences |-> userPreferences, quotes |-> SliceLast(getAllQuotes, limit)]

\* the reply for the quotes chosen; nextUpdate is lastUpdated and five
\* minutes, which the clock of hours does not tell apart
enrichedFeed(chosen, userId, feedType, includeActivity) ==
    [userPreferences |-> chosen.userPreferences,
     activityLog |-> activityLog,
     val |-> <<[feed |-> [i \in DOMAIN chosen.quotes |->
                   [quote |-> enrichQuoteWithStats(likes, activityLog, chosen.quotes[i], userId),
                    activity |-> IF includeActivity
                                 THEN <<getQuoteActivity(chosen.quotes[i].id)>> ELSE <<>>,
                    relevanceScore |-> calculateRelevanceScore(chosen.userPreferences,
                                                               chosen.quotes[i], userId)]],
                feedType |-> feedType,
                lastUpdated |-> now]>>]

getLiveFeed(userId, limit, feedType, includeActivity) ==
    enrichedFeed(feedQuotes(userId, limit, feedType), userId, feedType, includeActivity)

\* shareLinks and reports are written here and read by no method; of the
\* share URL the model keeps that there is one
shareQuote(quoteId, userId) ==
    IF repoGetQuoteById(quoteId) = <<>>
    THEN [err |-> QUOTE_NOT_FOUND, activityLog |-> activityLog, val |-> <<>>]
    ELSE [err |-> NoError,
          activityLog |-> publishActivity(activityLog, QUOTE_SHARED, quoteId, userId),
          val |-> <<"shareUrl">>]

reportQuote(quoteId, reason, userId) ==
    IF repoGetQuoteById(quoteId) = <<>>
    THEN [err |-> QUOTE_NOT_FOUND, activityLog |-> activityLog, val |-> <<>>]
    ELSE [err |-> NoError,
          activityLog |-> publishActivity(activityLog, QUOTE_REPORTED, quoteId, userId),
          val |-> <<TRUE>>]

----------------------------------------------------------------------------
(* The Activity Log under the calls that write it and the calls that read it *)

\* a call with outcome out on the log
LogCall(op, arg, out) ==
    /\ Len(out.activityLog) <= MaxLog
    /\ activityLog' = out.activityLog
    /\ ret' = [op |-> op, arg |-> arg, pre |-> [log |-> activityLog],
               err |-> out.err, val |-> out.val]
    /\ UNCHANGED <<quotes, likes, userPreferences, collections, pubsub, requests, now>>

Call_shareQuote(quoteId, userId) ==
    \E out \in {shareQuote(quoteId, userId)} :
        LogCall("shareQuote", <<quoteId, userId>>, out)

Call_reportQuote(quoteId, reason, userId) ==
    \E out \in {reportQuote(quoteId, reason, userId)} :
        LogCall("reportQuote", <<quoteId, reason, userId>>, out)

Call_getQuoteHistory(userId, limit) ==
    \E out \in {getQuoteHistory(userId, limit)} :
        LogCall("getQuoteHistory", <<userId, limit>>,
                [err |-> NoError, activityLog |-> out.activityLog, val |-> out.val])

Call_getLiveFeed(userId, limit, feedType, includeActivity) ==
    \E out \in {getLiveFeed(userId, limit, feedType, includeActivity)} :
        /\ activityLog' = out.activityLog
        /\ userPreferences' = out.userPreferences
        /\ ret' = [op |-> "getLiveFeed", arg |-> <<userId, limit, feedType, includeActivity>>,
                   pre |-> [log |-> activityLog], err |-> NoError, val |-> out.val]
        /\ UNCHANGED <<quotes, likes, collections, pubsub, requests, now>>

NextLog ==
    \/ Tick
    \/ Call_saveQuote(Q1)
    \/ Call_getRandomQuote(Undefined, {Q2})
    \/ Call_likeQuote("1", "u1")
    \/ Call_unlikeQuote("1", "u1")
    \/ Call_shareQuote("1", "u2")
    \/ Call_reportQuote("2", "spam", "u2")
    \/ Call_getAnalytics
    \/ Call_getAnalyticsDashboard("24h")
    \/ \E userId \in Users : Call_getQuoteHistory(userId, MaxLimit)
    \/ \E feedType \in FeedTypes : Call_getLiveFeed("u1", MaxLimit, feedType, TRUE)

SpecLog == Init /\ [][NextLog]_vars

\* C20: every operation leaves the Activity Log unchanged or appends exactly
\* one event at its end, the read paths getAnalytics, getAnalyticsDashboard,
\* getQuoteHistory and getLiveFeed included, and the timestamps of the events
\* are non-decreasing in log order.
C20_ActivityLogAppendOnly ==
    [][/\ \/ activityLog' = activityLog
          \/ /\ Len(activityLog') = Len(activityLog) + 1
             /\ SubSeq(activityLog', 1, Len(activityLog)) = activityLog
       /\ \A i, j \in DOMAIN activityLog' :
              i <= j => activityLog'[i].timestamp <= activityLog'[j].timestamp]_vars

\* a read path has returned from a log of two events made at different times
C20_Witness ==
    /\ ret.op \in {"getQuoteHistory", "getLiveFeed", "getAnalytics", "getAnalyticsDashboard"}
    /\ Len(activityLog) = 2
    /\ activityLog[1].timestamp < activityLog[2].timestamp
    /\ ret.op = "getQuoteHistory" => Len(ret.val) >= 1

----------------------------------------------------------------------------
(* Calls that run concurrently. A call runs without interruption from one  *)
(* await to the next: an async method of the repository has no await of    *)
(* its own, so its body runs when it is called and the caller resumes      *)
(* later with the result. requests.calls holds every call begun, with the  *)
(* await it is suspended at (pc) and its local constants; requests.likeKeys *)
(* holds the quote ids that are keys of the likes Map, which a caller that *)
(* keeps the array of getLikesByQuoteId across an await can tell from a    *)
(* missing key: `this.likes.get(quoteId) || []` is the stored array for a  *)
(* key and a new one otherwise.                                            *)

MaxCalls == 3

Done == "done"

\* the calls not yet returned
Running == {p \in DOMAIN requests.calls : requests.calls[p].pc # Done}

\* likes of the quote and whether the user likes it, as one state holds them
likePair(lk, quoteId, userId) ==
    [likes |-> Len(lk[quoteId]),
     likedByCurrentUser |-> getUserLikeForQuote(lk, quoteId, userId) # <<>>]

\* Each running getQuoteById records the pair of every state it runs
\* through, and a call that holds the array of a quote keeps the rows it
\* held when removeLike stores another array for the quote.
witnessed(calls, lk, replaced) ==
    [p \in DOMAIN calls |->
        IF calls[p].op = "getQuoteById" /\ calls[p].pc # Done
        THEN [calls[p] EXCEPT
                !.seen = @ \cup {likePair(lk, calls[p].quoteId, calls[p].userId)},
                !.local = IF calls[p].pc \in {"getLikesByQuoteId", "getUserLikeForQuote"}
                             /\ calls[p].quoteId \in replaced /\ @.live
                          THEN [@ EXCEPT !.live = FALSE,
                                         !.rows = likes[calls[p].quoteId]]
                          ELSE @]
        ELSE calls[p]]

\* the last step: which call took it
Stepped(p, name) ==
    ret' = [op |-> name, arg |-> <<p>>, pre |-> <<>>, err |-> NoError, val |-> <<>>]

\* a call begins and runs up to its first await
Begin(call, pc, local) ==
    /\ Len(requests.calls) < MaxCalls
    /\ requests' = [requests EXCEPT !.calls =
           Append(@, [op |-> call.op, quoteId |-> call.quoteId, userId |-> call.userId,
                      pc |-> pc, local |-> local, err |-> NoError, val |-> <<>>,
                      seen |-> {likePair(likes, call.quoteId, call.userId)}])]
    /\ Stepped(Len(requests.calls) + 1, "begin")

\* likeQuote up to `await this.quoteRepository.getQuoteById(quoteId)`
Begin_likeQuote(quoteId, userId) ==
    /\ Begin([op |-> "likeQuote", quoteId |-> quoteId, userId |-> userId],
             "getQuoteById", [quote |-> repoGetQuoteById(quoteId)])
    /\ UNCHANGED <<quotes, likes, activityLog, userPreferences, collections, pubsub, now>>

\* from the quote to `await this.quoteRepository.getUserLikeForQuote(quoteId, userId)`
likeQuote_afterGetQuoteById(p) ==
    LET call == requests.calls[p] IN
    /\ call.op = "likeQuote" /\ call.pc = "getQuoteById"
    /\ requests' = [requests EXCEPT !.calls[p] =
          IF call.local.quote = <<>>
          THEN [call EXCEPT !.pc = Done, !.err = QUOTE_NOT_FOUND]
          ELSE [call EXCEPT !.pc = "getUserLikeForQuote",
                   !.local = [existingLike |->
                       getUserLikeForQuote(likes, call.quoteId, call.userId)]]]
    /\ Stepped(p, "likeQuote")
    /\ UNCHANGED <<quotes, likes, activityLog, userPreferences, collections, pubsub, now>>

\* from existingLike to `await this.quoteRepository.addLike(like)`
likeQuote_afterGetUserLikeForQuote(p) ==
    LET call == requests.calls[p] IN
    /\ call.op = "likeQuote" /\ call.pc = "getUserLikeForQuote"
    /\ IF call.local.existingLike # <<>>
       THEN /\ requests' = [requests EXCEPT !.calls[p] = [call EXCEPT !.pc = Done]]
            /\ UNCHANGED likes
       ELSE \E likes1 \in {addLike(likes, [quoteId |-> call.quoteId,
                                           userId |-> call.userId, timestamp |-> now])} :
            /\ likes' = likes1
            /\ requests' =
                 [calls |-> witnessed(
                      [requests.calls EXCEPT ![p] =
                          [call EXCEPT !.pc = "addLike",
                                       !.local = [inserted |-> likes1 # likes]]],
                      likes1, {}),
                  likeKeys |-> IF likes1 # likes
                               THEN requests.likeKeys \cup {call.quoteId}
                               ELSE requests.likeKeys]
    /\ Stepped(p, "likeQuote")
    /\ UNCHANGED <<quotes, activityLog, userPreferences, collections, pubsub, now>>

\* from addLike to the return
likeQuote_afterAddLike(p) ==
    LET call == requests.calls[p] IN
    /\ call.op = "likeQuote" /\ call.pc = "addLike"
    /\ activityLog' = publishActivity(activityLog, QUOTE_LIKED, call.quoteId, call.userId)
    /\ requests' = [requests EXCEPT !.calls[p] = [call EXCEPT !.pc = Done]]
    /\ Stepped(p, "likeQuote")
    /\ UNCHANGED <<quotes, likes, userPreferences, collections, pubsub, now>>

\* a likeQuote call takes its next step
Resume_likeQuote ==
    \E p \in DOMAIN requests.calls :
        \/ likeQuote_afterGetQuoteById(p)
        \/ likeQuote_afterGetUserLikeForQuote(p)
        \/ likeQuote_afterAddLike(p)

\* concurrent likeQuote calls of one user for one quote, stored or not yet
NextLikes ==
    \/ Call_saveQuote(Q1)
    \/ Begin_likeQuote("1", "u1")
    \/ Resume_likeQuote

SpecLikes == Init /\ [][NextLikes]_vars

\* C21: once all concurrently running likeQuote(q, u) calls for a stored
\* quote have completed, there is exactly one Like row for (q, u); and at no
\* time is there more than one.
C21_ConcurrentLikesLeaveOneRow ==
    /\ Cardinality({i \in DOMAIN likes["1"] : likes["1"][i].userId = "u1"}) <= 1
    /\ (/\ Running = {}
        /\ \E p \in DOMAIN requests.calls : requests.calls[p].err = NoError)
       => Cardinality({i \in DOMAIN likes["1"] : likes["1"][i].userId = "u1"}) = 1

\* all calls have completed, and two of them called addLike: one inserted
\* the row and the other found it there
C21_Witness ==
    /\ Len(requests.calls) = MaxCalls
    /\ Running = {}
    /\ \E p, r \in DOMAIN requests.calls :
           /\ requests.calls[p].local = [inserted |-> TRUE]
           /\ requests.calls[r].local = [inserted |-> FALSE]
    /\ Len(likes["1"]) = 1

----------------------------------------------------------------------------
(* getTrendingQuotes on a log of likes made over several days *)

MaxEvents == 4

NextTrending ==
    \/ \E quote \in {Q1, Q2} : Call_saveQuote(quote)
    \/ \E id \in {"1", "2"}, userId \in Users : Call_likeQuoteWithin(id, userId, MaxEvents)
    \/ Advance(12)
    \/ \E limit \in 1..2, timeRange \in {"24h", "7d"} : Call_getTrendingQuotes(limit, timeRange)

\* the service as index.ts constructs it, with pubsub
InitPubsub == Init /\ pubsub = TRUE

SpecTrending == InitPubsub /\ [][NextTrending]_vars

\* the events of the log that are likes of the quote
LikedEvents(quoteId) ==
    {i \in DOMAIN activityLog :
        activityLog[i].type = QUOTE_LIKED /\ activityLog[i].quoteId = quoteId}

\* those of them inside the window that ends now
LikedInWindow(quoteId, timeRange) ==
    {i \in LikedEvents(quoteId) :
        activityLog[i].timestamp >= now - getTimeRangeMs(timeRange)}

\* the place of the first of a set of events
First(events) == CHOOSE i \in events : \A j \in events : i <= j

\* The quotes returned are at most limit, each has a like inside the window,
\* and they come by the number of likes inside the window, descending.
TrendingOrdered ==
    /\ Len(ret.val) <= ret.arg[1]
    /\ \A j \in DOMAIN ret.val : LikedInWindow(ret.val[j].id, ret.arg[2]) # {}
    /\ \A j, k \in DOMAIN ret.val : j < k =>
           Cardinality(LikedInWindow(ret.val[j].id, ret.arg[2]))
               >= Cardinality(LikedInWindow(ret.val[k].id, ret.arg[2]))

\* C22 as stated: getTrendingQuotes returns at most limit quotes, ordered by
\* their QUOTE_LIKED events inside the window, descending; quotes with equal
\* counts come in the order of their first QUOTE_LIKED event in the
\* Activity Log; no quote without such an event inside the window is returned.
C22_TrendingTiesByFirstEventInLog ==
    ret.op = "getTrendingQuotes" =>
        /\ TrendingOrdered
        /\ \A j, k \in DOMAIN ret.val :
               (/\ j < k
                /\ Cardinality(LikedInWindow(ret.val[j].id, ret.arg[2]))
                      = Cardinality(LikedInWindow(ret.val[k].id, ret.arg[2])))
               => First(LikedEvents(ret.val[j].id)) < First(LikedEvents(ret.val[k].id))

\* C22 amended: as above, but quotes with equal counts come in the order of
\* their first QUOTE_LIKED event inside the window.
C22_TrendingTiesByFirstEventInWindow ==
    ret.op = "getTrendingQuotes" =>
        /\ TrendingOrdered
        /\ \A j, k \in DOMAIN ret.val :
               (/\ j < k
                /\ Cardinality(LikedInWindow(ret.val[j].id, ret.arg[2]))
                      = Cardinality(LikedInWindow(ret.val[k].id, ret.arg[2])))
               => First(LikedInWindow(ret.val[j].id, ret.arg[2]))
                     < First(LikedInWindow(ret.val[k].id, ret.arg[2]))

\* two quotes with equal counts are returned, and the one returned second
\* has the earlier like in the log, outside the window
C22_Witness ==
    /\ ret.op = "getTrendingQuotes"
    /\ Len(ret.val) = 2
    /\ Cardinality(LikedInWindow(ret.val[1].id, ret.arg[2]))
          = Cardinality(LikedInWindow(ret.val[2].id, ret.arg[2]))
    /\ First(LikedEvents(ret.val[2].id)) < First(LikedEvents(ret.val[1].id))

----------------------------------------------------------------------------
(* getTrendingQuotes with the range 'all' and with a range that           *)
(* TIME_RANGES does not hold                                               *)

NextTrendingAll ==
    \/ \E quote \in {Q1, Q2} : Call_saveQuote(quote)
    \/ \E id \in {"1", "2"} : Call_likeQuoteWithin(id, "u1", MaxEvents)
    \/ Advance(12)
    \/ \E timeRange \in {"all", "24h", "2w"} : Call_getTrendingQuotes(MaxLimit, timeRange)

SpecTrendingAll == InitPubsub /\ [][NextTrendingAll]_vars

\* the quotes liked at or after the hour from
LikedSince(from) ==
    {id \in {"1", "2"} : \E i \in LikedEvents(id) : activityLog[i].timestamp >= from}

\* the ids of the quotes returned
ReturnedIds == {ret.val[j].id : j \in DOMAIN ret.val}

\* C23: getTrendingQuotes(limit, 'all') counts every QUOTE_LIKED event in the
\* Activity Log however old it is, and a timeRange that is not recognised is
\* treated as '24h'. (limit is no less than the number of quotes here.)
C23_AllRangeIsUnbounded ==
    ret.op = "getTrendingQuotes" =>
        /\ ret.arg[2] = "all" => ReturnedIds = LikedSince(0)
        /\ ret.arg[2] \in {"24h", "2w"} => ReturnedIds = LikedSince(now - 24)

----------------------------------------------------------------------------
\* the stored quotes that have a Like row
LikedStored == Filter(quotes, {q \in Range(quotes) : likes[q.id] # <<>>})

\* C24: discoverPatterns('length') reports as optimalLength the average
\* length of exactly the stored quotes that have at least one Like row, and
\* the average length of all stored quotes only when no quote has a like.
C24_OptimalLengthAveragesLikedQuotes ==
    (ret.op = "discoverPatterns" /\ ret.arg[1] = "length" /\ quotes # <<>>) =>
        ret.val[1].insights[1].data.optimalLength =
            IF LikedStored # <<>>
            THEN Divide(sumLengths(LikedStored), Len(LikedStored))
            ELSE Divide(sumLengths(quotes), Len(quotes))

----------------------------------------------------------------------------
\* concurrent likeQuote calls on the service constructed with pubsub
SpecLikesPubsub == InitPubsub /\ [][NextLikes]_vars

\* C25: under any interleaving of likeQuote calls at their await points, the
\* QUOTE_LIKED events in the Activity Log for (q, u) are as many as the Like
\* rows inserted for (q, u): a call that inserts nothing appends no event.
C25_OneLikedEventPerInsertedRow ==
    Running = {} =>
        Cardinality({i \in LikedEvents("1") : activityLog[i].userId = "u1"})
            = Cardinality({p \in DOMAIN requests.calls :
                              requests.calls[p].local = [inserted |-> TRUE]})

----------------------------------------------------------------------------
(* addQuoteToCollection running concurrently with the other collection     *)
(* calls. Its constant `collection` is the object the Map held when the    *)
(* call began: while the Map holds the object its fields are the Map's     *)
(* (live); once deleteCollection has taken it out they are those it had    *)
(* then, until a call stores the object again.                             *)

\* the collection c1 of u1, as createCollection("favs", undefined, false, "u1") leaves it
Favs ==
    [id |-> "c1", name |-> "favs", description |-> <<>>, quotes |-> <<>>,
     createdAt |-> 0, updatedAt |-> 0, isPublic |-> FALSE, likes |-> 0,
     userId |-> "u1"]

\* a service that holds quote "1" and the collection c1
InitFavs ==
    /\ quotes = <<Q1>>
    /\ likes = [q \in QuoteIds \cup MoreQuoteIds |-> <<>>]
    /\ activityLog = <<>>
    /\ userPreferences = <<>>
    /\ collections = <<Favs>>
    /\ pubsub \in BOOLEAN
    /\ now = 0
    /\ requests = [calls |-> <<>>, likeKeys |-> {}]
    /\ ret = [op |-> "new", arg |-> <<>>, pre |-> <<>>, err |-> NoError, val |-> <<>>]

\* the calls after a step from the Map cs to the Map cs1: a running
\* addQuoteToCollection keeps the fields of an object taken out of the Map
\* and reads the Map's again once the object is back
held(calls, cs, cs1) ==
    [p \in DOMAIN calls |->
        IF calls[p].op = "addQuoteToCollection" /\ calls[p].pc # Done
        THEN LET id == calls[p].local.collectionId IN
             IF collectionsGet(cs, id) # <<>> /\ collectionsGet(cs1, id) = <<>>
             THEN [calls[p] EXCEPT !.local.live = FALSE,
                                   !.local.collection = collectionsGet(cs, id)[1]]
             ELSE IF collectionsGet(cs1, id) # <<>>
             THEN [calls[p] EXCEPT !.local.live = TRUE]
             ELSE calls[p]
        ELSE calls[p]]

\* addQuoteToCollection up to `await this.quoteRepository.getQuoteById(quoteId)`
Begin_addQuoteToCollection(collectionId, quoteId, userId) ==
    LET collection == collectionsGet(collections, collectionId) IN
    /\ IF collection = <<>> \/ collection[1].userId # userId
       THEN /\ ret' = [op |-> "addQuoteToCollection",
                       arg |-> <<collectionId, quoteId, userId>>, pre |-> <<>>,
                       err |-> COLLECTION_NOT_FOUND, val |-> <<>>]
            /\ UNCHANGED requests
       ELSE Begin([op |-> "addQuoteToCollection", quoteId |-> quoteId, userId |-> userId],
                  "getQuoteById",
                  [collectionId |-> collectionId, live |-> TRUE,
                   collection |-> collection[1], quote |-> repoGetQuoteById(quoteId)])
    /\ UNCHANGED <<quotes, likes, activityLog, userPreferences, collections, pubsub, now>>

\* the fields of `collection` when the call resumes, the push and the set
addQuoteToCollection_afterGetQuoteById(p) ==
    LET call == requests.calls[p]
        collection == IF call.local.live
                      THEN collectionsGet(collections, call.local.collectionId)[1]
                      ELSE call.local.collection
    IN
    /\ call.op = "addQuoteToCollection" /\ call.pc = "getQuoteById"
    /\ \E collections1 \in
          {IF call.local.quote = <<>>
              \/ \E i \in DOMAIN collection.quotes : collection.quotes[i].id = call.quoteId
           THEN collections
           ELSE collectionsSet(collections,
                    [collection EXCEPT !.quotes = Append(@, call.local.quote[1]),
                                       !.updatedAt = now])} :
        /\ collections' = collections1
        /\ requests' = [requests EXCEPT !.calls =
              held([requests.calls EXCEPT ![p] =
                       [call EXCEPT !.pc = Done,
                                    !.err = IF call.local.quote = <<>>
                                            THEN QUOTE_NOT_FOUND ELSE NoError]],
                   collections, collections1)]
    /\ Stepped(p, "addQuoteToCollection")
    /\ UNCHANGED <<quotes, likes, activityLog, userPreferences, pubsub, now>>

\* deleteCollection has no await: it runs in one step, and the calls that
\* hold the collection keep the object. A delete that succeeded stays among
\* the calls made.
Run_deleteCollection(collectionId, userId) ==
    \E out \in {deleteCollection(collectionId, userId)} :
        /\ out.err = NoError => Len(requests.calls) < MaxCalls
        /\ collections' = out.collections
        /\ requests' = [requests EXCEPT !.calls =
              held(IF out.err = NoError
                   THEN Append(@, [op |-> "deleteCollection", quoteId |-> Undefined,
                                   userId |-> userId, pc |-> Done,
                                   local |-> [collectionId |-> collectionId],
                                   err |-> NoError, val |-> <<>>, seen |-> {}])
                   ELSE @,
                   collections, out.collections)]
        /\ ret' = [op |-> "deleteCollection", arg |-> <<collectionId, userId>>,
                   pre |-> <<>>, err |-> out.err, val |-> out.val]
        /\ UNCHANGED <<quotes, likes, activityLog, userPreferences, pubsub, now>>

NextFavs ==
    \/ Tick
    \/ Begin_addQuoteToCollection("c1", "1", "u1")
    \/ \E p \in DOMAIN requests.calls : addQuoteToCollection_afterGetQuoteById(p)
    \/ Call_removeQuoteFromCollection("c1", "1", "u1")
    \/ Run_deleteCollection("c1", "u1")
    \/ Call_getCollection("c1", "u1")
    \/ Call_getUserCollections("u1")

SpecFavs == InitFavs /\ [][NextFavs]_vars

\* C26: once deleteCollection(c, owner) has completed successfully, every
\* later getCollection(c, owner) fails with CollectionNotFound and
\* getUserCollections(owner) never lists c, even when an addQuoteToCollection
\* call on c that began before the delete resumes after it.
C26_DeletedCollectionStaysDeleted ==
    (\E p \in DOMAIN requests.calls :
        /\ requests.calls[p].op = "deleteCollection"
        /\ requests.calls[p].local.collectionId = "c1"
        /\ requests.calls[p].err = NoError)
    => /\ ret.op = "getCollection" => ret.err = COLLECTION_NOT_FOUND
       /\ ret.op = "getUserCollections" =>
              \A i \in DOMAIN ret.val : ret.val[i].id # "c1"

----------------------------------------------------------------------------
(* getQuoteById and unlikeQuote as calls that other calls interleave with. *)
(* getLikesByQuoteId returns the array the likes Map holds for the quote,  *)
(* which addLike appends to in place and removeLike replaces, or a new     *)
(* empty array when the Map has no entry for the quote.                    *)

\* unlikeQuote up to `await this.quoteRepository.removeLike(quoteId, userId)`
Begin_unlikeQuote(quoteId, userId) ==
    /\ Len(requests.calls) < MaxCalls
    /\ \E likes1 \in {removeLike(likes, quoteId, userId)} :
        /\ likes' = likes1
        /\ requests' =
             [calls |-> witnessed(
                  Append(requests.calls,
                         [op |-> "unlikeQuote", quoteId |-> quoteId, userId |-> userId,
                          pc |-> "removeLike", local |-> <<>>, err |-> NoError,
                          val |-> <<>>, seen |-> {}]),
                  likes1, {quoteId}),
              likeKeys |-> requests.likeKeys \cup {quoteId}]
    /\ Stepped(Len(requests.calls) + 1, "begin")
    /\ UNCHANGED <<quotes, activityLog, userPreferences, collections, pubsub, now>>

\* from removeLike to the return
unlikeQuote_afterRemoveLike(p) ==
    LET call == requests.calls[p] IN
    /\ call.op = "unlikeQuote" /\ call.pc = "removeLike"
    /\ activityLog' = publishActivity(activityLog, QUOTE_UNLIKED, call.quoteId, call.userId)
    /\ requests' = [requests EXCEPT !.calls[p] = [call EXCEPT !.pc = Done]]
    /\ Stepped(p, "unlikeQuote")
    /\ UNCHANGED <<quotes, likes, userPreferences, collections, pubsub, now>>

\* getQuoteById up to `await this.quoteRepository.getQuoteById(id)`
Begin_getQuoteById(id, userId) ==
    /\ Begin([op |-> "getQuoteById", quoteId |-> id, userId |-> userId],
             "getQuoteById", [quote |-> repoGetQuoteById(id)])
    /\ UNCHANGED <<quotes, likes, activityLog, userPreferences, collections, pubsub, now>>

\* the QuoteWithStats that enrichQuoteWithStats builds from the array it holds
enriched(quote, rows, likedByCurrentUser) ==
    [id |-> quote.id, content |-> quote.content, author |-> quote.author,
     tags |-> quote.tags, length |-> quote.length,
     likes |-> Len(rows),
     likedByCurrentUser |-> likedByCurrentUser,
     popularityScore |-> calculatePopularityScore(Len(rows)),
     trendingScore |-> calculateTrendingScore(activityLog, quote.id)]

\* the array a call holds, as it is now
rowsOf(call) == IF call.local.live THEN likes[call.quoteId] ELSE call.local.rows

\* null, or into enrichQuoteWithStats up to `await ...getLikesByQuoteId(quote.id)`
getQuoteById_afterGetQuoteById(p) ==
    LET call == requests.calls[p] IN
    /\ call.op = "getQuoteById" /\ call.pc = "getQuoteById"
    /\ requests' = [requests EXCEPT !.calls[p] =
          IF call.local.quote = <<>>
          THEN [call EXCEPT !.pc = Done]
          ELSE [call EXCEPT !.pc = "getLikesByQuoteId",
                   !.local = [quote |-> call.local.quote,
                              live |-> call.quoteId \in requests.likeKeys,
                              rows |-> getLikesByQuoteId(likes, call.quoteId),
                              likedByCurrentUser |-> FALSE]]]
    /\ Stepped(p, "getQuoteById")
    /\ UNCHANGED <<quotes, likes, activityLog, userPreferences, collections, pubsub, now>>

\* from likes to `await ...getUserLikeForQuote(quote.id, userId)`, or to
\* the return when there is no userId
getQuoteById_afterGetLikesByQuoteId(p) ==
    LET call == requests.calls[p] IN
    /\ call.op = "getQuoteById" /\ call.pc = "getLikesByQuoteId"
    /\ requests' = [requests EXCEPT !.calls[p] =
          IF call.userId # Undefined
          THEN [call EXCEPT !.pc = "getUserLikeForQuote",
                   !.local.likedByCurrentUser =
                       getUserLikeForQuote(likes, call.quoteId, call.userId) # <<>>]
          ELSE [call EXCEPT !.pc = Done,
                   !.val = <<enriched(call.local.quote[1], rowsOf(call), FALSE)>>]]
    /\ Stepped(p, "getQuoteById")
    /\ UNCHANGED <<quotes, likes, activityLog, userPreferences, collections, pubsub, now>>

\* from likedByCurrentUser to the return
getQuoteById_afterGetUserLikeForQuote(p) ==
    LET call == requests.calls[p] IN
    /\ call.op = "getQuoteById" /\ call.pc = "getUserLikeForQuote"
    /\ requests' = [requests EXCEPT !.calls[p] =
          [call EXCEPT !.pc = Done,
              !.val = <<enriched(call.local.quote[1], rowsOf(call),
                                 call.local.likedByCurrentUser)>>]]
    /\ Stepped(p, "getQuoteById")
    /\ UNCHANGED <<quotes, likes, activityLog, userPreferences, collections, pubsub, now>>

\* a getQuoteById call takes its next step
Resume_getQuoteById ==
    \E p \in DOMAIN requests.calls :
        \/ getQuoteById_afterGetQuoteById(p)
        \/ getQuoteById_afterGetLikesByQuoteId(p)
        \/ getQuoteById_afterGetUserLikeForQuote(p)

\* reads of quote "1" by u1 among u1's likes and unlikes of it
NextReads ==
    \/ Call_saveQuote(Q1)
    \/ Begin_likeQuote("1", "u1")
    \/ Resume_likeQuote
    \/ Begin_unlikeQuote("1", "u1")
    \/ \E p \in DOMAIN requests.calls : unlikeQuote_afterRemoveLike(p)
    \/ Begin_getQuoteById("1", "u1")
    \/ Resume_getQuoteById

SpecReads == Init /\ [][NextReads]_vars

\* C27: every QuoteWithStats returned by getQuoteById(q, u) while likeQuote
\* and unlikeQuote calls for (q, u) interleave with it is a snapshot of the
\* Like set: likedByCurrentUser implies likes >= 1, and the pair (likes,
\* likedByCurrentUser) is the pair of some single state of the store during
\* the call.
C27_ReadIsConsistentSnapshot ==
    \A p \in DOMAIN requests.calls :
        LET call == requests.calls[p] IN
        (call.op = "getQuoteById" /\ call.pc = Done /\ call.val # <<>>) =>
            /\ call.val[1].likedByCurrentUser => call.val[1].likes >= 1
            /\ [likes |-> call.val[1].likes,
                likedByCurrentUser |-> call.val[1].likedByCurrentUser] \in call.seen

----------------------------------------------------------------------------
(* Likes taken back: what unlikeQuote leaves of a quote's trending figures *)

\* quoteLikeCounts.get(quoteId) in getTrendingQuotes, 0 for a missing key
trendingCount(log, quoteId, timeRange) ==
    Len(SelectSeq(FilterRecentLikes(log, cutoffTimeOf(timeRange)),
                  LAMBDA event : event.quoteId = quoteId))

NextUnlike ==
    \/ Call_saveQuote(Q1)
    \/ \E userId \in Users : Call_likeQuoteWithin("1", userId, MaxEvents)
    \/ \E userId \in Users : Call_unlikeQuoteWithin("1", userId, MaxEvents)
    \/ Advance(12)
    \/ Call_getQuoteById("1", "u1")
    \/ Call_getTrendingQuotes(1, "24h")

SpecUnlike == InitPubsub /\ [][NextUnlike]_vars

\* the events of the log about the quote and the user
EventsOf(quoteId, userId) ==
    SelectSeq(activityLog,
              LAMBDA event : event.quoteId = quoteId /\ event.userId = userId)

\* the user liked the quote, took the like back and liked it again, all
\* within the last 24 hours
LikedUnlikedLiked(quoteId, userId) ==
    /\ Len(EventsOf(quoteId, userId)) = 3
    /\ EventsOf(quoteId, userId)[1].type = QUOTE_LIKED
    /\ EventsOf(quoteId, userId)[2].type = QUOTE_UNLIKED
    /\ EventsOf(quoteId, userId)[3].type = QUOTE_LIKED
    /\ EventsOf(quoteId, userId)[1].timestamp > now - TRENDING_WINDOW

\* C28: unlikeQuote never lowers a quote's trendingScore or its count in
\* getTrendingQuotes, since QUOTE_LIKED events stay counted when the Like
\* row is removed; a user who likes, unlikes and likes a quote again within
\* 24 hours adds 2 to its trending count and 1 to its likes.
C28_UnlikeKeepsTrending ==
    [][/\ ret'.op = "unlikeQuote" =>
            /\ calculateTrendingScore(activityLog', "1")
                  >= calculateTrendingScore(activityLog, "1")
            /\ \A timeRange \in {"24h", "7d"} :
                  trendingCount(activityLog', "1", timeRange)
                      >= trendingCount(activityLog, "1", timeRange)
       /\ \A userId \in Users : LikedUnlikedLiked("1", userId)' =>
            /\ Len(SelectSeq(FilterRecentLikes(activityLog', cutoffTimeOf("24h")),
                     LAMBDA event : event.quoteId = "1" /\ event.userId = userId)) = 2
            /\ Cardinality({i \in DOMAIN likes'["1"] : likes'["1"][i].userId = userId}) = 1
            /\ (Len(activityLog') = 3 /\ ret'.op = "getQuoteById") =>
                  /\ ret'.val[1].trendingScore = 2
                  /\ ret'.val[1].likes = 1
      ]_vars

\* u1 has liked, unliked and liked quote "1" again within a day, and the
\* quote is read with one like and a trending score of two likes
C28_Witness ==
    /\ LikedUnlikedLiked("1", "u1")
    /\ Len(activityLog) = 3
    /\ ret.op = "getQuoteById"
    /\ ret.val[1].likes = 1
    /\ ret.val[1].trendingScore = 2

----------------------------------------------------------------------------
(* getQuotesWithFilter, and the queries of the service taken together.     *)
(* A filter or sort that is absent is <<>>; a filter field that is absent  *)
(* is <<>> for a string or a list and 0 for a number, which the code tests *)
(* for truth alike.                                                        *)

\* Array.prototype.sort((a, b) => a.key - b.key): stable, ascending by key
StableSortAsc(s) ==
    LET n == Len(s)
        rank(i) == Cardinality({j \in 1..n :
                       \/ RatLess(s[j].key, s[i].key)
                       \/ (~RatLess(s[i].key, s[j].key) /\ j < i)}) + 1
    IN [r \in 1..n |-> s[CHOOSE i \in 1..n : rank(i) = r]]

\* the filters of getQuotesWithFilter, which keep the order of the quotes
passesFilter(quote, filter) ==
    /\ filter.author = <<>> \/ filter.author[1] = <<>>
          \/ includes(toLowerCase(quote.author), toLowerCase(filter.author[1]))
    /\ filter.tags = <<>>
          \/ \E i \in DOMAIN filter.tags : \E j \in DOMAIN quote.tags :
                 includes(toLowerCase(quote.tags[j]), toLowerCase(filter.tags[i]))
    /\ filter.minLength = 0 \/ quote.length >= filter.minLength
    /\ filter.maxLength = 0 \/ quote.length <= filter.maxLength
    /\ filter.minLikes = 0
          \/ Len(getLikesByQuoteId(likes, quote.id)) >= filter.minLikes

\* the sort of getQuotesWithFilter by 'likes' or 'length'; another field
\* leaves the order (the sort by 'author' is not among the inputs)
sortedBy(qs, sort) ==
    LET keyed == [i \in DOMAIN qs |->
                    [quote |-> qs[i],
                     key |-> IF sort.field = "likes"
                             THEN Rat(Len(getLikesByQuoteId(likes, qs[i].id)), 1)
                             ELSE Rat(qs[i].length, 1)]]
        sorted == IF sort.direction = "desc"
                  THEN StableSortDesc(keyed) ELSE StableSortAsc(keyed)
    IN IF sort.field \in {"likes", "length"}
       THEN [i \in DOMAIN sorted |-> sorted[i].quote]
       ELSE qs

getQuotesWithFilter(filter, sort, limit, offset, userId) ==
    LET filtered == IF filter = <<>> THEN getAllQuotes
                    ELSE SelectSeq(getAllQuotes,
                                   LAMBDA quote : passesFilter(quote, filter[1]))
        sorted == IF sort = <<>> THEN filtered ELSE sortedBy(filtered, sort[1])
        paginatedQuotes == SubSeq(sorted, offset + 1, Min(offset + limit, Len(sorted)))
    IN [i \in DOMAIN paginatedQuotes |->
           enrichQuoteWithStats(likes, activityLog, paginatedQuotes[i], userId)]

Call_getQuotesWithFilter(filter, sort, limit, offset, userId) ==
    /\ ret' = [op |-> "getQuotesWithFilter",
               arg |-> <<filter, sort, limit, offset, userId>>,
               pre |-> <<>>, err |-> NoError,
               val |-> getQuotesWithFilter(filter, sort, limit, offset, userId)]
    /\ UNCHANGED <<quotes, likes, activityLog, userPreferences, collections, pubsub, requests, now>>

Filters ==
    { <<>>,
      <<[author |-> << <<"a","n">> >>, tags |-> <<>>,
         minLength |-> 0, maxLength |-> 0, minLikes |-> 0]>>,
      <<[author |-> <<>>, tags |-> << <<"J","O","Y">> >>,
         minLength |-> 0, maxLength |-> 10, minLikes |-> 0]>>,
      <<[author |-> <<>>, tags |-> <<>>,
         minLength |-> 9, maxLength |-> 0, minLikes |-> 1]>> }

Sorts ==
    { <<>>,
      <<[field |-> "likes", direction |-> "desc"]>>,
      <<[field |-> "length", direction |-> "asc"]>> }

\* the operations that answer a question about the store
QueryOps ==
    {"getQuoteById", "getSimilarQuotes", "searchQuotes", "getQuotesWithFilter",
     "getTrendingQuotes", "getPopularAuthors", "getAnalytics",
     "getAnalyticsDashboard", "compareQuotes", "getSmartRecommendations",
     "getLiveFeed", "getQuoteHistory", "getUserCollections", "getCollection"}

NextQueries ==
    \/ \E quote \in {Q1, Q2} : Call_saveQuote(quote)
    \/ Call_likeQuote("1", "u1")
    \/ Call_createCollection("favs", <<>>, FALSE, "u1")
    \/ Call_getQuoteById("1", "u1")
    \/ Call_getSimilarQuotes("1", MaxLimit, "u1")
    \/ Call_searchQuotes(<< <<"l","i","f","e">> >>, MaxLimit, "u1")
    \/ \E filter \in Filters, sort \in Sorts, offset \in 0..1 :
          Call_getQuotesWithFilter(filter, sort, MaxLimit, offset, "u1")
    \/ Call_getTrendingQuotes(MaxLimit, "24h")
    \/ Call_getPopularAuthors(MaxLimit)
    \/ Call_getAnalytics
    \/ Call_getAnalyticsDashboard("24h")
    \/ Call_compareQuotes(<<"1", "2">>)
    \/ \E algorithm \in Algorithms :
          Call_getSmartRecommendations("u1", MaxLimit, algorithm, TRUE)
    \/ \E feedType \in FeedTypes : Call_getLiveFeed("u2", MaxLimit, feedType, TRUE)
    \/ Call_getQuoteHistory("u1", MaxLimit)
    \/ Call_getUserCollections("u1")
    \/ \E id \in CollectionIds : Call_getCollection(id, "u1")

SpecQueries == Init /\ [][NextQueries]_vars

\* the users that have a stored preferences record; totalUsers is their number
StoredUsers == {userPreferences[i].userId : i \in DOMAIN userPreferences}

\* C29: the query operations leave all stored state unchanged: the quote
\* set, the Like rows, the Activity Log, the collections and the set of
\* users that have a stored preferences record.
C29_QueriesLeaveStateUnchanged ==
    [][ret'.op \in QueryOps =>
          /\ quotes' = quotes
          /\ likes' = likes
          /\ activityLog' = activityLog
          /\ collections' = collections
          /\ StoredUsers' = StoredUsers]_vars

----------------------------------------------------------------------------
\* C30: in every reachable state every event of the Activity Log carries a
\* quoteId that is the id of a quote present in the store.
C30_LoggedQuoteIdsAreStored ==
    \A i \in DOMAIN activityLog :
        \E j \in DOMAIN quotes : quotes[j].id = activityLog[i].quoteId

============================================================================
